---- MODULE Spec2Model ----
(***************************************************************************)
(* Task engine of zou (zou/app/services/tasks_service.py): the status      *)
(* registry, task creation, status transitions, assignment and removal,    *)
(* the time ledger, the comment thread, the per-person task query, and the *)
(* events each call emits.  The database tables are the shared state;      *)
(* every call in flight is a frame holding the handler's local variables   *)
(* and its position in the handler's code.                                 *)
(***************************************************************************)
EXTENDS Integers, Sequences, FiniteSets, TLC

\* ------------------------------------------------------------------ bounds
\* The clock takes the values 1..MaxNow.
MaxNow == 2

\* A TimeSpent row's duration stays within 0..MaxDuration.
MaxDuration == 4

\* The Comment table holds at most MaxComments rows.
MaxComments == 3

\* ------------------------------------------------------- Python values
\* A NULL column / Python None.  Row ids and clock values are positive.
NULL == 0

\* Python values whose type matters to == and != : None, a uuid.UUID read
\* from an id column, the str made of it by serialize()/str(), a datetime and
\* its serialized form.  Two values of different types are never equal.
PyNone == [t |-> "none", v |-> 0]

PyUUID(i) == [t |-> "uuid", v |-> i]

PyStr(i) == [t |-> "str", v |-> i]

\* The Python value of an id column holding i.
ColId(i) == IF i = NULL THEN PyNone ELSE PyUUID(i)

\* The Python value of a date column holding d.
ColDate(d) == IF d = NULL THEN PyNone ELSE [t |-> "datetime", v |-> d]

\* fields.serialize_value: a UUID becomes its string, a datetime its ISO
\* string, anything else is kept.
serialize_value(x) ==
    CASE x.t = "uuid" -> PyStr(x.v)
      [] x.t = "datetime" -> [t |-> "isodate", v |-> x.v]
      [] OTHER -> x

\* Binding a Python value (None, UUID or its string) to an id column.
ToColumn(x) == x.v

\* ------------------------------------------------------- static tables
\* Rows of tables the task engine only reads.
PersonIds == {1, 2}

Persons == [i \in PersonIds |-> [id |-> i, first_name |-> IF i = 1 THEN "Ann" ELSE "Bob"]]

ProjectIds == {1}

Projects == [i \in ProjectIds |-> [id |-> i, name |-> "Prod"]]

EntityTypeIds == {1, 2, 3, 4}

EntityTypeNames == <<"Shot", "Sequence", "Episode", "Scene">>

EntityTypes == [i \in EntityTypeIds |-> [id |-> i, name |-> EntityTypeNames[i]]]

\* The Entity table: an episode E01, a sequence S01 of it, a sequence S02 of
\* no episode, the shots P01 of S01 and P02 of S02, a scene SC01 of S01 and
\* the shot SH01 of no sequence.  <<name, entity type id, parent id>> by id.
EntityRows ==
    <<  <<"SH01", 1, NULL>>, <<"E01", 3, NULL>>, <<"S01", 2, 2>>,
        <<"S02", 2, NULL>>, <<"P01", 1, 3>>, <<"P02", 1, 4>>,
        <<"SC01", 4, 3>>  >>

EntityIds == DOMAIN EntityRows

Entities ==
    [i \in EntityIds |->
        [id |-> i, name |-> EntityRows[i][1], project_id |-> 1,
         entity_type_id |-> EntityRows[i][2],
         parent_id |-> EntityRows[i][3], preview_file_id |-> NULL]]

\* The entity create_task is called with in the task engine's runs.
TaskEntityIds == {1}

TaskTypeIds == {1}

TaskTypes ==
    [i \in TaskTypeIds |->
        [id |-> i, name |-> "Animation", color |-> "#888888", priority |-> 1]]

\* The names create_task is called with ("main" is the default).
TaskNames == {"main", "Secondary"}

\* Task ids a caller may pass: the ids rows can get, so that an id of no row
\* is among them while the table is not full.
TaskIdArgs == 1 .. Cardinality(TaskNames \X TaskEntityIds \X TaskTypeIds)

\* Configuration-supplied canonical status names.
DONE_TASK_STATUS == "Done"

WIP_TASK_STATUS == "WIP"

TO_REVIEW_TASK_STATUS == "To review"

\* --------------------------------------------------------------- state
VARIABLES
    statuses,   \* TaskStatus table: sequence of rows, a row's id is its index
    tasks,      \* Task table: function from row id to row
    now,        \* datetime.datetime.now()
    frames,     \* per caller: the call in flight, its locals and position
    last,       \* the get_or_create_status call that finished last, if any
    time_spents,\* TimeSpent table: sequence of rows, a row's id is its index
    comments,   \* Comment table: sequence of rows, a row's id is its index
    deleted,    \* the deleted rows, as <<table, id>> (ids are not reused)
    hierarchy   \* what the shot resources have written: created records, castings

vars ==
    <<statuses, tasks, now, frames, last, time_spents, comments, deleted,
      hierarchy>>

Procs == {1, 2}

\* An unset local variable.
Nil == [nil |-> TRUE]

IdleFrame == [op |-> "idle", pc |-> "idle", emitted |-> <<>>]

\* A frame at the start of a call: nothing read, emitted or returned yet.
\* pre, pre_times, t0, wrote and stored are bookkeeping: the Task and
\* TimeSpent tables and the clock when the call began, whether the call has
\* changed a stored row, and the stored row when the call published its
\* event.
NewFrame(op, args) ==
    [op |-> op, pc |-> "idle", args |-> args, task |-> Nil, status |-> Nil,
     sname |-> "", sshort |-> "", cont |-> "",
     before |-> Nil, after |-> Nil, person |-> Nil, assignees |-> <<>>,
     emitted |-> <<>>, ret |-> Nil, exc |-> "",
     time_spent |-> Nil,
     pre |-> tasks, pre_times |-> time_spents, t0 |-> now, wrote |-> FALSE,
     stored |-> Nil, checked |-> FALSE, pre_deleted |-> deleted,
     pre_statuses |-> statuses]

SetFrame(p, f) == frames' = [frames EXCEPT ![p] = f]

At(p, label) == frames[p].pc = label

\* Mutant: a failing call publishes an event before it raises.
Raise_Emit(f, e) ==
    [f EXCEPT !.pc = "done", !.exc = e,
              !.emitted = Append(@, [name |-> "task:error", data |-> e])]

\* A call ends by returning ret (exc = "") or by raising exc.
Raise(f, e) == [f EXCEPT !.pc = "done", !.exc = e]

Return(f, v) == [f EXCEPT !.pc = "done", !.ret = v]

\* events.emit(name, data): the events published by the call, in order.
Emit(f, name, data) ==
    [f EXCEPT !.emitted = Append(@, [name |-> name, data |-> data])]

\* --------------------------------------------------- serialization
\* status.serialize()
SerializeStatus(row) ==
    [id |-> serialize_value(ColId(row.id)), name |-> row.name,
     short_name |-> row.short_name, color |-> row.color,
     is_reviewable |-> row.is_reviewable]

\* task.serialize() of a Task object holding row
SerializeTask(row) ==
    [id |-> serialize_value(ColId(row.id)),
     name |-> row.name,
     duration |-> row.duration,
     estimation |-> row.estimation,
     completion_rate |-> row.completion_rate,
     start_date |-> serialize_value(ColDate(row.start_date)),
     end_date |-> serialize_value(ColDate(row.end_date)),
     due_date |-> serialize_value(ColDate(row.due_date)),
     real_start_date |-> serialize_value(ColDate(row.real_start_date)),
     project_id |-> serialize_value(ColId(row.project_id)),
     task_type_id |-> serialize_value(ColId(row.task_type_id)),
     task_status_id |-> serialize_value(ColId(row.task_status_id)),
     entity_id |-> serialize_value(ColId(row.entity_id)),
     assigner_id |-> serialize_value(ColId(row.assigner_id)),
     assignees |-> {serialize_value(ColId(a)) : a \in row.assignees}]

SerializePerson(row) ==
    [id |-> serialize_value(ColId(row.id)), first_name |-> row.first_name]

SerializeProject(row) == [id |-> serialize_value(ColId(row.id)), name |-> row.name]

SerializeEntityType(row) == [id |-> serialize_value(ColId(row.id)), name |-> row.name]

SerializeEntity(row) ==
    [id |-> serialize_value(ColId(row.id)), name |-> row.name,
     project_id |-> serialize_value(ColId(row.project_id)),
     entity_type_id |-> serialize_value(ColId(row.entity_type_id)),
     parent_id |-> serialize_value(ColId(row.parent_id)),
     preview_file_id |-> serialize_value(ColId(row.preview_file_id))]

\* ------------------------------------------------ status registry
\* name.lower() on the names the model uses.
Lower(name) ==
    CASE name = "Todo" -> "todo"
      [] name = "WIP" -> "wip"
      [] name = "Done" -> "done"
      [] name = "To review" -> "to review"
      [] name = "Retake" -> "retake"
      [] OTHER -> name

\* Mutant: the lookup by name finds nothing.
GetStatusByName_Miss(name) == Nil

\* TaskStatus.get_by(name=...): the row, or Nil for None.
GetStatusByName(name) ==
    IF \E i \in 1 .. Len(statuses) : statuses[i].name = name
    THEN statuses[CHOOSE i \in 1 .. Len(statuses) :
             /\ statuses[i].name = name
             /\ \A j \in 1 .. (i - 1) : statuses[j].name # name]
    ELSE Nil

\* TaskStatus.get_by(short_name=...)
GetStatusByShortName(short) ==
    IF \E i \in 1 .. Len(statuses) : statuses[i].short_name = short
    THEN statuses[CHOOSE i \in 1 .. Len(statuses) :
             /\ statuses[i].short_name = short
             /\ \A j \in 1 .. (i - 1) : statuses[j].short_name # short]
    ELSE Nil

\* Mutant: no fallback to the short name.
LookupStatus_NameOnly(name, short) == GetStatusByName(name)

\* The lookups of get_or_create_status: by name, then by short name when
\* one is given.
LookupStatus(name, short) ==
    IF GetStatusByName(name) = Nil /\ short # ""
    THEN GetStatusByShortName(short)
    ELSE GetStatusByName(name)

\* The row TaskStatus.create is given: short_name or name.lower().
NewStatusRow(name, short) ==
    [id |-> Len(statuses) + 1, name |-> name,
     short_name |-> IF short # "" THEN short ELSE Lower(name),
     color |-> "#f5f5f5", is_reviewable |-> FALSE]

\* The table's uniqueness constraint refuses the row (IntegrityError).
StatusConflict(row) ==
    \E i \in 1 .. Len(statuses) :
        statuses[i].name = row.name \/ statuses[i].short_name = row.short_name

\* get_or_create_status, first half: the lookups.  A hit returns the
\* serialized row to the caller's continuation; a miss goes on to create.
StatusLookup(p) ==
    /\ At(p, "status_lookup")
    /\ LET f == frames[p]
           row == LookupStatus(f.sname, f.sshort)
       IN  SetFrame(p, IF row = Nil
                       THEN [f EXCEPT !.pc = "status_create"]
                       ELSE [f EXCEPT !.pc = f.cont, !.status = SerializeStatus(row)])
    /\ UNCHANGED <<statuses, tasks, now, last, time_spents, comments, deleted, hierarchy>>

\* get_or_create_status, second half: TaskStatus.create.
StatusCreate(p) ==
    /\ At(p, "status_create")
    /\ LET f == frames[p]
           row == NewStatusRow(f.sname, f.sshort)
       IN  IF StatusConflict(row)
           THEN /\ SetFrame(p, Raise(f, "IntegrityError"))
                /\ UNCHANGED statuses
           ELSE /\ statuses' = Append(statuses, row)
                /\ SetFrame(p, [f EXCEPT !.pc = f.cont, !.status = SerializeStatus(row)])
    /\ UNCHANGED <<tasks, now, last, time_spents, comments, deleted, hierarchy>>

\* A handler calls get_or_create_status(name, short) and goes on at cont.
AskStatus(f, name, short, cont) ==
    [f EXCEPT !.pc = "status_lookup", !.sname = name, !.sshort = short, !.cont = cont]

get_done_status(f, cont) == AskStatus(f, DONE_TASK_STATUS, "done", cont)

get_wip_status(f, cont) == AskStatus(f, WIP_TASK_STATUS, "wip", cont)

get_to_review_status(f, cont) == AskStatus(f, TO_REVIEW_TASK_STATUS, "pndng", cont)

\* Mutant: the wrong accessor.
get_todo_status_Wip(f, cont) == AskStatus(f, WIP_TASK_STATUS, "wip", cont)

get_todo_status(f, cont) == AskStatus(f, "Todo", "", cont)

\* ------------------------------------------------------ get_task_raw
\* The ids of the rows the Task table holds.
TaskRowIds == {i \in DOMAIN tasks : <<"Task", i>> \notin deleted}

\* An id that is no id at all (not a UUID).
MalformedId == -1

\* Task.get(task_id): the row, or Nil.
TaskGet(tid) == IF tid \in TaskRowIds THEN tasks[tid] ELSE Nil

\* ------------------------------------------------------ start_task
\* Lines 67-68: read the task, then ask for the wip status.
StartTaskCall(p, tid) ==
    /\ At(p, "idle")
    /\ LET f == NewFrame("start_task", [task_id |-> tid])
       IN  SetFrame(p, IF TaskGet(tid) = Nil
                       THEN Raise(f, "TaskNotFoundException")
                       ELSE get_wip_status([f EXCEPT !.task = TaskGet(tid)],
                                           "start_update"))
    /\ UNCHANGED <<statuses, tasks, now, last, time_spents, comments, deleted, hierarchy>>

\* The guard of start_task: None, or different from the wip status's id.
\* task.task_status_id is the column's value, wip_status["id"] comes from
\* status.serialize().
task_is_not_already_wip(task, wip_status) ==
    \/ ColId(task.task_status_id) = PyNone
    \/ ColId(task.task_status_id) # wip_status.id

\* Mutant: the update forgets real_start_date.
StartTaskWrite_StatusOnly(row, wip_status, setDate) ==
    [row EXCEPT !.task_status_id = ToColumn(wip_status.id)]

\* Mutant: the update sets real_start_date on every start.
StartTaskWrite_AlwaysDate(row, wip_status, setDate) ==
    [row EXCEPT !.task_status_id = ToColumn(wip_status.id), !.real_start_date = now]

\* Mutant: the update empties the assignees.
StartTaskWrite_Unassign(row, wip_status, setDate) ==
    [row EXCEPT !.task_status_id = ToColumn(wip_status.id),
                !.real_start_date = IF setDate THEN now ELSE @,
                !.assignees = {}]

\* task.update(new_data) of start_task: the columns of new_data are written
\* to the row and to the caller's object.
StartTaskWrite(row, wip_status, setDate) ==
    [row EXCEPT !.task_status_id = ToColumn(wip_status.id),
                !.real_start_date = IF setDate THEN now ELSE @]

\* Lines 69-80: the guard and the update.
StartTaskUpdate(p) ==
    /\ At(p, "start_update")
    /\ LET f == frames[p]
           tid == f.args.task_id
           setDate == f.task.real_start_date = NULL
       IN  IF task_is_not_already_wip(f.task, f.status)
           THEN /\ tasks' = [tasks EXCEPT ![tid] = StartTaskWrite(@, f.status, setDate)]
                /\ SetFrame(p, [f EXCEPT !.pc = "start_emit",
                                         !.before = SerializeTask(f.task),
                                         !.task = StartTaskWrite(@, f.status, setDate),
                                         !.wrote = @ \/ tasks'[tid] # tasks[tid]])
           ELSE /\ SetFrame(p, Return(f, SerializeTask(f.task)))
                /\ UNCHANGED tasks
    /\ UNCHANGED <<statuses, now, last, time_spents, comments, deleted, hierarchy>>

\* Mutant: the after snapshot is read again from the table.
StartTaskEvent_Reread(f) ==
    [task_before |-> f.before, task_after |-> SerializeTask(tasks[f.args.task_id])]

\* The payload of task:start.
StartTaskEvent(f) ==
    [task_before |-> f.before, task_after |-> SerializeTask(f.task)]

\* Lines 82-88: emit task:start and return.
StartTaskEmit(p) ==
    /\ At(p, "start_emit")
    /\ LET f == frames[p]
       IN  SetFrame(p, Return(Emit([f EXCEPT !.stored = tasks[f.args.task_id]],
                                   "task:start", StartTaskEvent(f)),
                              SerializeTask(f.task)))
    /\ UNCHANGED <<statuses, tasks, now, last, time_spents, comments, deleted, hierarchy>>

\* ------------------------------------------------------ task_to_review
\* Lines 92-93: read the task, then ask for the to-review status.
TaskToReviewCall(p, tid, person, comment, preview_path) ==
    /\ At(p, "idle")
    /\ LET f == NewFrame("task_to_review",
                         [task_id |-> tid, person |-> person, comment |-> comment,
                          preview_path |-> preview_path])
       IN  SetFrame(p, IF TaskGet(tid) = Nil
                       THEN Raise(f, "TaskNotFoundException")
                       ELSE get_to_review_status([f EXCEPT !.task = TaskGet(tid)],
                                                 "review_update"))
    /\ UNCHANGED <<statuses, tasks, now, last, time_spents, comments, deleted, hierarchy>>

\* task.update({"task_status_id": ...}); task.save()
TaskToReviewWrite(row, to_review_status) ==
    [row EXCEPT !.task_status_id = ToColumn(to_review_status.id)]

\* Lines 94-97: the before snapshot, then the unconditional update.
TaskToReviewUpdate(p) ==
    /\ At(p, "review_update")
    /\ LET f == frames[p]
           tid == f.args.task_id
       IN  /\ tasks' = [tasks EXCEPT ![tid] = TaskToReviewWrite(@, f.status)]
           /\ SetFrame(p, [f EXCEPT !.pc = "review_emit",
                                    !.before = SerializeTask(f.task),
                                    !.task = TaskToReviewWrite(@, f.status),
                                    !.wrote = @ \/ tasks'[tid] # tasks[tid]])
    /\ UNCHANGED <<statuses, now, last, time_spents, comments, deleted, hierarchy>>

\* Project.get, Entity.get, EntityType.get: the row, or Nil.
ProjectGet(i) == IF i \in ProjectIds THEN Projects[i] ELSE Nil

EntityGet(i) ==
    IF i \in EntityIds /\ <<"Entity", i>> \notin deleted THEN Entities[i] ELSE Nil

\* shots_service.get_shot / get_scene / get_sequence / get_episode: the
\* record of that id and type, if it has not been removed.
EntityOfType(i, type) ==
    IF /\ i \in EntityIds
       /\ <<"Entity", i>> \notin deleted
       /\ EntityTypes[Entities[i].entity_type_id].name = type
    THEN Entities[i]
    ELSE Nil

EntityTypeGet(i) == IF i \in EntityTypeIds THEN EntityTypes[i] ELSE Nil

\* Mutant: the after snapshot carries the default preview path.
TaskToReviewAfter_NoPreview(f) ==
    [project |-> SerializeProject(ProjectGet(f.task.project_id)),
     entity |-> SerializeEntity(EntityGet(f.task.entity_id)),
     entity_type |->
         SerializeEntityType(EntityTypeGet(EntityGet(f.task.entity_id).entity_type_id)),
     person |-> f.args.person,
     comment |-> f.args.comment,
     preview_path |-> ""] @@ SerializeTask(f.task)

\* Lines 103-109: the enriched after snapshot.
TaskToReviewAfter(f) ==
    [project |-> SerializeProject(ProjectGet(f.task.project_id)),
     entity |-> SerializeEntity(EntityGet(f.task.entity_id)),
     entity_type |->
         SerializeEntityType(EntityTypeGet(EntityGet(f.task.entity_id).entity_type_id)),
     person |-> f.args.person,
     comment |-> f.args.comment,
     preview_path |-> f.args.preview_path] @@ SerializeTask(f.task)

\* Lines 99-116: resolve project, entity and entity type (serialize() of a
\* row that is not there fails), emit task:to-review and return.
TaskToReviewEmit(p) ==
    /\ At(p, "review_emit")
    /\ LET f == frames[p]
           resolved ==
               /\ ProjectGet(f.task.project_id) # Nil
               /\ EntityGet(f.task.entity_id) # Nil
               /\ EntityTypeGet(EntityGet(f.task.entity_id).entity_type_id) # Nil
       IN  SetFrame(p, IF resolved
                       THEN Return(Emit([f EXCEPT !.after = TaskToReviewAfter(f),
                                                  !.stored = tasks[f.args.task_id]],
                                        "task:to-review",
                                        [task_before |-> f.before,
                                         task_after |-> TaskToReviewAfter(f)]),
                                   TaskToReviewAfter(f))
                       ELSE Raise(f, "AttributeError"))
    /\ UNCHANGED <<statuses, tasks, now, last, time_spents, comments, deleted, hierarchy>>

\* ------------------------------------------------------ assign_task
\* persons_service.get_person_raw: the row, or Nil.
PersonGet(i) == IF i \in PersonIds THEN Persons[i] ELSE Nil

\* Person ids a caller may pass: the persons' and one of no person.
PersonIdArgs == PersonIds \cup {3}

\* Lines 223-224: read the task and the person.
AssignTaskCall(p, tid, pid) ==
    /\ At(p, "idle")
    /\ LET f == NewFrame("assign_task", [task_id |-> tid, person_id |-> pid])
       IN  SetFrame(p, CASE TaskGet(tid) = Nil -> Raise(f, "TaskNotFoundException")
                         [] TaskGet(tid) # Nil /\ PersonGet(pid) = Nil ->
                                Raise(f, "PersonNotFoundException")
                         [] OTHER -> [f EXCEPT !.pc = "assign_save",
                                               !.task = TaskGet(tid),
                                               !.person = PersonGet(pid)])
    /\ UNCHANGED <<statuses, tasks, now, last, time_spents, comments, deleted, hierarchy>>

\* Mutant: the person replaces the assignees.
AssigneesAppend_Replace(assignees, pid) == {pid}

\* task.assignees.append(person) on the assignee set.
AssigneesAppend(assignees, pid) == assignees \cup {pid}

\* Lines 225-226: load the assignees, append the person, save.
AssignTaskSave(p) ==
    /\ At(p, "assign_save")
    /\ LET f == frames[p]
           tid == f.args.task_id
           new == AssigneesAppend(tasks[tid].assignees, f.person.id)
       IN  /\ tasks' = [tasks EXCEPT ![tid].assignees = new]
           /\ SetFrame(p, [f EXCEPT !.pc = "assign_emit",
                                    !.task = [@ EXCEPT !.assignees = new],
                                    !.wrote = @ \/ tasks'[tid] # tasks[tid]])
    /\ UNCHANGED <<statuses, now, last, time_spents, comments, deleted, hierarchy>>

\* Lines 227-232: emit task:assign and return.
AssignTaskEmit(p) ==
    /\ At(p, "assign_emit")
    /\ LET f == frames[p]
       IN  SetFrame(p, Return(Emit(f, "task:assign",
                                   [task |-> SerializeTask(f.task),
                                    person |-> SerializePerson(f.person)]),
                              SerializeTask(f.task)))
    /\ UNCHANGED <<statuses, tasks, now, last, time_spents, comments, deleted, hierarchy>>

\* ------------------------------------------------------ clear_assignation
\* The persons of a set in the order of the assignee list.
RECURSIVE InOrder(_)
InOrder(S) ==
    IF S = {} THEN <<>>
    ELSE LET m == CHOOSE x \in S : \A y \in S : x <= y
         IN  <<m>> \o InOrder(S \ {m})

\* Lines 210-211: read the task and serialize its assignees.
ClearAssignationCall(p, tid) ==
    /\ At(p, "idle")
    /\ LET f == NewFrame("clear_assignation", [task_id |-> tid])
       IN  SetFrame(p, IF TaskGet(tid) = Nil
                       THEN Raise(f, "TaskNotFoundException")
                       ELSE [f EXCEPT !.pc = "clear_update",
                                      !.task = TaskGet(tid),
                                      !.assignees = InOrder(TaskGet(tid).assignees)])
    /\ UNCHANGED <<statuses, tasks, now, last, time_spents, comments, deleted, hierarchy>>

\* Mutant: the update clears the caller's object only, not the row.
ClearAssignationUpdate_Keep(p) ==
    /\ At(p, "clear_update")
    /\ SetFrame(p, [frames[p] EXCEPT !.pc = "clear_emit", !.task.assignees = {}])
    /\ UNCHANGED <<statuses, tasks, now, last, time_spents, comments, deleted, hierarchy>>

\* Lines 212-213: task.update({"assignees": []}) removes the loaded
\* assignees from the row.
ClearAssignationUpdate(p) ==
    /\ At(p, "clear_update")
    /\ LET f == frames[p]
           tid == f.args.task_id
       IN  /\ tasks' = [tasks EXCEPT ![tid].assignees = @ \ f.task.assignees]
           /\ SetFrame(p, [f EXCEPT !.pc = "clear_emit",
                                    !.task = [@ EXCEPT !.assignees = {}],
                                    !.wrote = @ \/ tasks'[tid] # tasks[tid]])
    /\ UNCHANGED <<statuses, now, last, time_spents, comments, deleted, hierarchy>>

\* Mutant: one batched event, for the first assignee only.
EmitUnassign_Batched(f, assignees) ==
    IF assignees = <<>> THEN f
    ELSE Emit(f, "task:unassign",
              [person |-> SerializePerson(Persons[Head(assignees)]),
               task |-> SerializeTask(f.task)])

\* The loop of lines 214-218: one task:unassign per serialized assignee.
RECURSIVE EmitUnassign(_, _)
EmitUnassign(f, assignees) ==
    IF assignees = <<>> THEN f
    ELSE EmitUnassign(Emit(f, "task:unassign",
                           [person |-> SerializePerson(Persons[Head(assignees)]),
                            task |-> SerializeTask(f.task)]),
                      Tail(assignees))

\* Lines 214-219: emit the events and return.
ClearAssignationEmit(p) ==
    /\ At(p, "clear_emit")
    /\ LET f == frames[p]
       IN  SetFrame(p, Return(EmitUnassign(f, f.assignees), SerializeTask(f.task)))
    /\ UNCHANGED <<statuses, tasks, now, last, time_spents, comments, deleted, hierarchy>>

\* ------------------------------------------------------ create_task
\* persons_service.get_current_user()["id"], or None outside a session.
CurrentUsers == {NULL, 1}

\* Line 152: ask for the todo status (outside the try block).
CreateTaskCall(p, tt, e, name, user) ==
    /\ At(p, "idle")
    /\ SetFrame(p, get_todo_status(
                       NewFrame("create_task",
                                [task_type |-> TaskTypes[tt],
                                 entity |-> SerializeEntity(Entities[e]),
                                 name |-> name, current_user |-> user]),
                       "create_insert"))
    /\ UNCHANGED <<statuses, tasks, now, last, time_spents, comments, deleted, hierarchy>>

\* The row Task.create is given (lines 158-173).
NewTaskRow(f) ==
    [id |-> Len(tasks) + 1,
     name |-> f.args.name,
     duration |-> 0,
     estimation |-> 0,
     completion_rate |-> 0,
     start_date |-> NULL,
     end_date |-> NULL,
     due_date |-> NULL,
     real_start_date |-> NULL,
     project_id |-> ToColumn(f.args.entity.project_id),
     task_type_id |-> f.args.task_type.id,
     task_status_id |-> ToColumn(f.status.id),
     entity_id |-> ToColumn(f.args.entity.id),
     assigner_id |-> f.args.current_user,
     assignees |-> {}]

\* The columns of the Task table's uniqueness constraint.
TaskKey(row) == <<row.name, row.project_id, row.task_type_id, row.entity_id>>

\* The constraint refuses the row (IntegrityError).
TaskConflict(row) == \E i \in TaskRowIds : TaskKey(tasks[i]) = TaskKey(row)

\* Lines 174-185: the returned dict.
CreateTaskDict(row, task_status, task_type) ==
    [task_status_id |-> task_status.id,
     task_status_name |-> task_status.name,
     task_status_short_name |-> task_status.short_name,
     task_status_color |-> task_status.color,
     task_type_id |-> task_type.id,
     task_type_name |-> task_type.name,
     task_type_color |-> task_type.color,
     task_type_priority |-> task_type.priority] @@ SerializeTask(row)

\* Lines 153-188: Task.create; an IntegrityError is swallowed and the call
\* returns None.
CreateTaskInsert(p) ==
    /\ At(p, "create_insert")
    /\ LET f == frames[p]
           row == NewTaskRow(f)
       IN  IF TaskConflict(row)
           THEN /\ SetFrame(p, Return(f, PyNone))
                /\ UNCHANGED tasks
           ELSE /\ tasks' = Append(tasks, row)
                /\ SetFrame(p, Return([f EXCEPT !.task = row, !.wrote = TRUE],
                                      CreateTaskDict(row, f.status, f.args.task_type)))
    /\ UNCHANGED <<statuses, now, last, time_spents, comments, deleted, hierarchy>>

\* ------------------------------------------------------ update_task
\* Task.get(task_id) called outside get_task_raw, followed by a method call
\* on its result: a malformed id is a StatementError nobody catches here,
\* and for an id of no row Task.get returns None, which has no methods.
TaskGetError(tid) ==
    CASE tid = MalformedId -> "StatementError"
      [] tid # MalformedId /\ TaskGet(tid) = Nil -> "AttributeError"
      [] OTHER -> ""

\* Lines 192-194 with data = {"task_status_id": sid}.
UpdateTask(p, tid, sid) ==
    /\ At(p, "idle")
    /\ LET f == NewFrame("update_task", [task_id |-> tid, task_status_id |-> sid])
       IN  IF TaskGetError(tid) # ""
           THEN /\ SetFrame(p, Raise(f, TaskGetError(tid)))
                /\ UNCHANGED tasks
           ELSE /\ tasks' = [tasks EXCEPT ![tid].task_status_id = sid]
                /\ SetFrame(p, Return([f EXCEPT !.task = tasks'[tid],
                                                !.wrote = tasks'[tid] # tasks[tid]],
                                      SerializeTask(tasks'[tid])))
    /\ UNCHANGED <<statuses, now, last, time_spents, comments, deleted, hierarchy>>

\* ------------------------------------------------------ get_or_create_status
\* A caller calls get_or_create_status with a name and a short name
\* (lines 334-339).
GetOrCreateStatusCall(p, name, short) ==
    /\ At(p, "idle")
    /\ SetFrame(p, AskStatus(NewFrame("get_or_create_status",
                                      [name |-> name, short_name |-> short]),
                             name, short, "status_return"))
    /\ UNCHANGED <<statuses, tasks, now, last, time_spents, comments, deleted, hierarchy>>

\* Line 351: return status.serialize().
StatusReturn(p) ==
    /\ At(p, "status_return")
    /\ SetFrame(p, Return(frames[p], frames[p].status))
    /\ UNCHANGED <<statuses, tasks, now, last, time_spents, comments, deleted, hierarchy>>

\* ------------------------------------------------------ scheduling
\* The caller takes the result; the frame is free for the next call.
Finish(p) ==
    /\ At(p, "done")
    /\ SetFrame(p, IdleFrame)
    /\ last' = IF frames[p].op = "get_or_create_status"
               THEN [args |-> frames[p].args, ret |-> frames[p].ret, exc |-> frames[p].exc]
               ELSE Nil
    /\ UNCHANGED <<statuses, tasks, now, time_spents, comments, deleted, hierarchy>>

\* Time passes.
Tick ==
    /\ now < MaxNow
    /\ now' = now + 1
    /\ UNCHANGED <<statuses, tasks, frames, last, time_spents, comments, deleted,
                   hierarchy>>

\* The database after construction: empty tables, no call in flight.
Init ==
    /\ statuses = <<>>
    /\ tasks = <<>>
    /\ now = 1
    /\ frames = [p \in Procs |-> IdleFrame]
    /\ last = Nil
    /\ time_spents = <<>>
    /\ comments = <<>>
    /\ deleted = {}
    /\ hierarchy = {}

\* The status ids update_task is given: NULL or a row's.
StatusIdArgs == {NULL} \cup (1 .. Len(statuses))

\* The arguments of task_to_review.
Comments == {"ok"}

PreviewPaths == {"", "/preview.mp4"}

\* One caller, one call at a time: every sequential history of the
\* lifecycle operations on a database that starts empty.
SeqNext ==
    \/ Tick
    \/ \E tt \in TaskTypeIds, e \in TaskEntityIds, user \in CurrentUsers :
           CreateTaskCall(1, tt, e, "main", user)
    \/ CreateTaskInsert(1)
    \/ \E tid \in TaskIdArgs : StartTaskCall(1, tid)
    \/ StartTaskUpdate(1)
    \/ StartTaskEmit(1)
    \/ \E tid \in TaskIdArgs, person \in PersonIds, c \in Comments, pp \in PreviewPaths :
           TaskToReviewCall(1, tid, SerializePerson(Persons[person]), c, pp)
    \/ TaskToReviewUpdate(1)
    \/ TaskToReviewEmit(1)
    \/ \E tid \in TaskIdArgs, pid \in PersonIdArgs : AssignTaskCall(1, tid, pid)
    \/ AssignTaskSave(1)
    \/ AssignTaskEmit(1)
    \/ \E tid \in TaskIdArgs : ClearAssignationCall(1, tid)
    \/ ClearAssignationUpdate(1)
    \/ ClearAssignationEmit(1)
    \/ \E tid \in TaskIdArgs, sid \in StatusIdArgs : UpdateTask(1, tid, sid)
    \/ StatusLookup(1)
    \/ StatusCreate(1)
    \/ Finish(1)

SeqSpec == Init /\ [][SeqNext]_vars

\* The database once create_task has created the task "main" of the entity
\* on an empty database, outside a session.
RaceInit ==
    /\ statuses = <<[id |-> 1, name |-> "Todo", short_name |-> "todo",
                     color |-> "#f5f5f5", is_reviewable |-> FALSE]>>
    /\ tasks = <<[id |-> 1, name |-> "main", duration |-> 0, estimation |-> 0,
                  completion_rate |-> 0, start_date |-> NULL, end_date |-> NULL,
                  due_date |-> NULL, real_start_date |-> NULL, project_id |-> 1,
                  task_type_id |-> 1, task_status_id |-> 1, entity_id |-> 1,
                  assigner_id |-> NULL, assignees |-> {}]>>
    /\ now = 1
    /\ frames = [p \in Procs |-> IdleFrame]
    /\ last = Nil
    /\ time_spents = <<>>
    /\ comments = <<>>
    /\ deleted = {}
    /\ hierarchy = {}

\* Two callers run start_task and task_to_review at once: their steps
\* interleave freely.
RaceNext ==
    \/ Tick
    \/ \E p \in Procs :
        \/ \E tid \in TaskIdArgs : StartTaskCall(p, tid)
        \/ StartTaskUpdate(p)
        \/ StartTaskEmit(p)
        \/ \E tid \in TaskIdArgs :
               TaskToReviewCall(p, tid, SerializePerson(Persons[1]), "ok", "")
        \/ TaskToReviewUpdate(p)
        \/ TaskToReviewEmit(p)
        \/ StatusLookup(p)
        \/ StatusCreate(p)
        \/ Finish(p)

RaceSpec == RaceInit /\ [][RaceNext]_vars

\* Two callers run create_task at once on a database that starts empty.
CreateNext ==
    \E p \in Procs :
        \/ \E tt \in TaskTypeIds, e \in TaskEntityIds, name \in TaskNames, user \in CurrentUsers :
               CreateTaskCall(p, tt, e, name, user)
        \/ CreateTaskInsert(p)
        \/ StatusLookup(p)
        \/ StatusCreate(p)
        \/ Finish(p)

CreateSpec == Init /\ [][CreateNext]_vars

\* The names and short names callers pass to get_or_create_status: the
\* canonical ones and a custom one.
StatusNames == {"Todo", WIP_TASK_STATUS, "Retake"}

StatusShortNames == {"", "wip", "todo"}

\* One caller calls get_or_create_status again and again on a registry that
\* starts empty.
StatusNext ==
    \/ \E name \in StatusNames, short \in StatusShortNames :
           GetOrCreateStatusCall(1, name, short)
    \/ StatusLookup(1)
    \/ StatusCreate(1)
    \/ StatusReturn(1)
    \/ Finish(1)

StatusSpec == Init /\ [][StatusNext]_vars

\* ------------------------------------------------------ time ledger
\* The dates and durations callers record; the last date is malformed.
Dates == {"2024-01-01", "2024-01-02"}

DateArgs == Dates \cup {"01/01/2024"}

Durations == {1, 2}

\* time_spent.serialize()
SerializeTimeSpent(row) ==
    [id |-> serialize_value(ColId(row.id)),
     task_id |-> serialize_value(ColId(row.task_id)),
     person_id |-> serialize_value(ColId(row.person_id)),
     date |-> row.date, duration |-> row.duration]

\* The ids of the rows the TimeSpent table holds.
TimeSpentRowIds == {i \in DOMAIN time_spents : <<"TimeSpent", i>> \notin deleted}

\* TimeSpent.get_by(task_id=..., person_id=..., date=...): the row, or Nil.
TimeSpentGetBy(tid, pid, date) ==
    LET hits == {i \in TimeSpentRowIds :
                    /\ time_spents[i].task_id = tid
                    /\ time_spents[i].person_id = pid
                    /\ time_spents[i].date = date}
    IN  IF hits = {} THEN Nil
        ELSE time_spents[CHOOSE i \in hits : \A j \in hits : i <= j]

\* The table's uniqueness constraint on (task, person, date) refuses the
\* row (IntegrityError).
TimeSpentConflict(row) == TimeSpentGetBy(row.task_id, row.person_id, row.date) # Nil

\* Mutant: the duration is overwritten in both modes.
UpdatedDuration_Replace(time_spent, duration, add) == duration

\* Lines 413-416: the duration an existing entry is updated to, computed
\* from the entry the call has read.
UpdatedDuration(time_spent, duration, add) ==
    IF add THEN time_spent.duration + duration ELSE duration

\* Mutant: the DataError is reported as a not-found error.
DataErrorException_NotFound == "TaskNotFoundException"

\* Lines 409-410: except DataError: raise WrongDateFormatException
DataErrorException == "WrongDateFormatException"

\* Lines 403-410: look the entry up; a malformed date is a DataError.
CreateOrUpdateTimeSpentCall(p, tid, pid, date, duration, add) ==
    /\ At(p, "idle")
    /\ LET f == NewFrame("create_or_update_time_spent",
                         [task_id |-> tid, person_id |-> pid, date |-> date,
                          duration |-> duration, add |-> add])
           found == TimeSpentGetBy(tid, pid, date)
       IN  /\ (date \in Dates /\ found # Nil) =>
                   /\ UpdatedDuration(found, duration, add) <= MaxDuration
                   /\ UpdatedDuration(found, duration, add) >= -MaxDuration
           /\ SetFrame(p, IF date \notin Dates
                           THEN Raise(f, DataErrorException)
                           ELSE [f EXCEPT !.pc = "time_write", !.time_spent = found])
    /\ UNCHANGED <<statuses, tasks, now, last, time_spents, comments, deleted, hierarchy>>

\* Lines 412-424: update the entry read, or create one, and return it.
CreateOrUpdateTimeSpentWrite(p) ==
    /\ At(p, "time_write")
    /\ LET f == frames[p]
           a == f.args
           new == [id |-> Len(time_spents) + 1, task_id |-> a.task_id,
                   person_id |-> a.person_id, date |-> a.date,
                   duration |-> a.duration]
           upd == [f.time_spent EXCEPT
                      !.duration = UpdatedDuration(f.time_spent, a.duration, a.add)]
       IN  CASE f.time_spent # Nil ->
                    /\ time_spents' = [time_spents EXCEPT ![f.time_spent.id] = upd]
                    /\ SetFrame(p, Return([f EXCEPT !.time_spent = upd],
                                           SerializeTimeSpent(upd)))
             [] f.time_spent = Nil /\ TimeSpentConflict(new) ->
                    /\ SetFrame(p, Raise(f, "IntegrityError"))
                    /\ UNCHANGED time_spents
             [] OTHER ->
                    /\ time_spents' = Append(time_spents, new)
                    /\ SetFrame(p, Return([f EXCEPT !.time_spent = new],
                                           SerializeTimeSpent(new)))
    /\ UNCHANGED <<statuses, tasks, now, last, comments, deleted, hierarchy>>

\* str(time_spent.person_id), the key of a person's entry in the result.
PersonKey(pid) == ToString(pid)

\* result[key] = value on a dict.
DictSet(dict, key, value) ==
    [k \in DOMAIN dict \cup {key} |-> IF k = key THEN value ELSE dict[k]]

\* Mutant: the total counts the entries.
TimeSpentsLoop_Count(rows, result) ==
    [result EXCEPT !["total"] = Len(rows)]

\* The loop of lines 430-432 over the rows of the query.
RECURSIVE TimeSpentsLoop(_, _)
TimeSpentsLoop(rows, result) ==
    IF rows = <<>> THEN result
    ELSE LET time_spent == Head(rows)
             withEntry == DictSet(result, PersonKey(time_spent.person_id),
                                  SerializeTimeSpent(time_spent))
         IN  TimeSpentsLoop(Tail(rows),
                            [withEntry EXCEPT !["total"] = @ + time_spent.duration])

\* TimeSpent.query.filter_by(task_id=task_id).all(), in table order.
TimeSpentsOfTask(tid) ==
    SelectSeq(time_spents,
              LAMBDA row : row.id \in TimeSpentRowIds /\ row.task_id = tid)

\* Lines 427-433.
GetTimeSpents(p, tid) ==
    /\ At(p, "idle")
    /\ SetFrame(p, Return(NewFrame("get_time_spents", [task_id |-> tid]),
                           TimeSpentsLoop(TimeSpentsOfTask(tid), [total |-> 0])))
    /\ UNCHANGED <<statuses, tasks, now, last, time_spents, comments, deleted, hierarchy>>

\* Callers record time on the task of a database that holds one, and ask
\* for the totals of that task and of a task without entries.
TimeNext(P, persons, dates) ==
    \E p \in P :
        \/ \E pid \in persons, date \in dates, d \in Durations, add \in BOOLEAN :
               CreateOrUpdateTimeSpentCall(p, 1, pid, date, d, add)
        \/ CreateOrUpdateTimeSpentWrite(p)
        \/ \E tid \in TaskIdArgs : GetTimeSpents(p, tid)
        \/ Finish(p)

\* One caller, one call at a time, for any person and date.
TimeSeqNext == TimeNext({1}, PersonIds, DateArgs)

TimeSpec == RaceInit /\ [][TimeSeqNext]_vars

\* The durations a caller may pass: the function takes any number.
SignedDurations == Durations \cup {-1}

\* One caller records time for one person, with durations of either sign.
TimeSignedNext ==
    \/ \E date \in Dates, d \in SignedDurations, add \in BOOLEAN :
           CreateOrUpdateTimeSpentCall(1, 1, 1, date, d, add)
    \/ CreateOrUpdateTimeSpentWrite(1)
    \/ GetTimeSpents(1, 1)
    \/ Finish(1)

TimeSignedSpec == RaceInit /\ [][TimeSignedNext]_vars

\* Two callers at once, all calls for one (task, person, date).
TimeRaceNext == TimeNext(Procs, {1}, {"2024-01-01"})

TimeRaceSpec == RaceInit /\ [][TimeRaceNext]_vars

\* ------------------------------------------------------ comment thread
\* The texts callers post.
Texts == {"first", "second"}

\* The creation time the Comment model stamps on a new row.
CreatedAt == now

\* The row Comment.create is given (lines 516-522); no preview is attached.
NewCommentRow(object_id, task_status_id, person_id, text) ==
    [id |-> Len(comments) + 1, object_id |-> object_id, object_type |-> "Task",
     task_status_id |-> task_status_id, person_id |-> person_id, text |-> text,
     created_at |-> CreatedAt, preview_file_id |-> NULL]

\* comment.serialize()
SerializeComment(row) ==
    [id |-> serialize_value(ColId(row.id)),
     object_id |-> serialize_value(ColId(row.object_id)),
     object_type |-> row.object_type,
     task_status_id |-> serialize_value(ColId(row.task_status_id)),
     person_id |-> serialize_value(ColId(row.person_id)),
     text |-> row.text,
     created_at |-> serialize_value(ColDate(row.created_at)),
     preview_file_id |-> serialize_value(ColId(row.preview_file_id))]

\* Lines 509-523.
CreateComment(p, object_id, task_status_id, person_id, text) ==
    /\ At(p, "idle")
    /\ Len(comments) < MaxComments
    /\ LET row == NewCommentRow(object_id, task_status_id, person_id, text)
       IN  /\ comments' = Append(comments, row)
           /\ SetFrame(p, Return(NewFrame("create_comment",
                                          [object_id |-> object_id,
                                           task_status_id |-> task_status_id,
                                           person_id |-> person_id, text |-> text]),
                                 SerializeComment(row)))
    /\ UNCHANGED <<statuses, tasks, now, last, time_spents, deleted, hierarchy>>

\* ORDER BY of a Comment query: by object_id first when byTask, then by
\* created_at (descending when newestFirst); rows equal on these come in
\* either order (tieDesc).
CommentBefore(i, j, byTask, newestFirst, tieDesc) ==
    LET a == comments[i]
        b == comments[j]
    IN  CASE byTask /\ a.object_id # b.object_id -> a.object_id < b.object_id
          [] a.created_at # b.created_at /\ ~(byTask /\ a.object_id # b.object_id) ->
                 IF newestFirst THEN a.created_at > b.created_at
                 ELSE a.created_at < b.created_at
          [] OTHER -> IF tieDesc THEN i > j ELSE i < j

RECURSIVE OrderedComments(_, _, _, _)
OrderedComments(ids, byTask, newestFirst, tieDesc) ==
    IF ids = {} THEN <<>>
    ELSE LET m == CHOOSE i \in ids :
                      \A j \in ids \ {i} : CommentBefore(i, j, byTask, newestFirst, tieDesc)
         IN  <<comments[m]>> \o OrderedComments(ids \ {m}, byTask, newestFirst, tieDesc)

\* The status row joined to a comment (lines 441-446).
StatusOfComment(comment) == statuses[comment.task_status_id]

\* Mutant: the status shown is the task's current one.
CommentStatus_OfTask(comment) ==
    LET status == statuses[tasks[comment.object_id].task_status_id]
    IN  [name |-> status.name, short_name |-> status.short_name,
         color |-> status.color, is_reviewable |-> status.is_reviewable,
         id |-> serialize_value(ColId(status.id))]

\* Lines 471-477: comment_dict["task_status"].
CommentStatus(comment) ==
    LET status == StatusOfComment(comment)
    IN  [name |-> status.name, short_name |-> status.short_name,
         color |-> status.color, is_reviewable |-> status.is_reviewable,
         id |-> serialize_value(ColId(comment.task_status_id))]

\* Lines 464-486 for one row of the query; a comment without preview gets
\* no "preview" entry.
CommentDict(comment) ==
    [person |-> [first_name |-> Persons[comment.person_id].first_name,
                 id |-> serialize_value(ColId(comment.person_id))],
     task_status |-> CommentStatus(comment)] @@ SerializeComment(comment)

\* The ids of the rows the Comment table holds.
CommentRowIds == {i \in DOMAIN comments : <<"Comment", i>> \notin deleted}

\* The comments of the query of lines 439-450: those of the task whose
\* person and status rows exist.
CommentsOfTask(tid) ==
    {i \in CommentRowIds :
        /\ comments[i].object_id = tid
        /\ comments[i].person_id \in PersonIds
        /\ comments[i].task_status_id \in 1 .. Len(statuses)}

\* Lines 436-487.
GetComments(p, tid) ==
    /\ At(p, "idle")
    /\ \E tieDesc \in BOOLEAN :
           LET rows == OrderedComments(CommentsOfTask(tid), FALSE, TRUE, tieDesc)
           IN  SetFrame(p, Return(NewFrame("get_comments", [task_id |-> tid]),
                                  [i \in DOMAIN rows |-> CommentDict(rows[i])]))
    /\ UNCHANGED <<statuses, tasks, now, last, time_spents, comments, deleted, hierarchy>>

\* One caller posts comments on the task of a database that holds one,
\* moves the task through its statuses and lists the comments.
CommentNext ==
    \/ Tick
    \/ \E sid \in 1 .. Len(statuses) : CreateComment(1, 1, sid, 1, "first")
    \/ \E tid \in TaskIdArgs : GetComments(1, tid)
    \/ StartTaskCall(1, 1)
    \/ StartTaskUpdate(1)
    \/ StartTaskEmit(1)
    \/ TaskToReviewCall(1, 1, SerializePerson(Persons[1]), "ok", "")
    \/ TaskToReviewUpdate(1)
    \/ TaskToReviewEmit(1)
    \/ StatusLookup(1)
    \/ StatusCreate(1)
    \/ Finish(1)

CommentSpec == RaceInit /\ [][CommentNext]_vars

\* ------------------------------------------------------ get_person_tasks
\* The project lists callers pass: none of the projects, or all of them.
ProjectArgs == {{}, {SerializeProject(Projects[i]) : i \in ProjectIds}}

\* Lines 548-550: read the person, collect the project ids, ask for the
\* done status.
GetPersonTasksCall(p, pid, projects) ==
    /\ At(p, "idle")
    /\ SetFrame(p, get_done_status(
                       [NewFrame("get_person_tasks",
                                 [person_id |-> pid, projects |-> projects])
                            EXCEPT !.person = PersonGet(pid)],
                       "person_tasks_query"))
    /\ UNCHANGED <<statuses, tasks, now, last, time_spents, comments, deleted, hierarchy>>

\* Mutant: tasks in the done status are kept.
PersonTaskFilter_WithDone(row, person, project_ids, done_status) ==
    /\ person.id \in row.assignees
    /\ row.project_id \in project_ids
    /\ row.task_status_id \in 1 .. Len(statuses)

\* The joins and filters of lines 554-562 on one Task row.  The database
\* compares the status column with the id bound from done_status["id"];
\* the inner join drops a task without status.
PersonTaskFilter(row, person, project_ids, done_status) ==
    /\ person.id \in row.assignees
    /\ row.project_id \in project_ids
    /\ row.task_status_id \in 1 .. Len(statuses)
    /\ row.task_status_id # ToColumn(done_status.id)

\* outerjoin(Sequence, Sequence.id == Entity.parent_id) and
\* outerjoin(Episode, Episode.id == Sequence.parent_id): the Entity row whose
\* id is the parent_id of the row joined before, no row when there is none.
OuterJoinParent(row) ==
    IF row = Nil THEN Nil
    ELSE IF row.parent_id \in EntityIds THEN Entities[row.parent_id]
    ELSE Nil

\* Mutant: a missing level gives an empty name.
JoinedName_Blank(row) == [t |-> "str", s |-> IF row = Nil THEN "" ELSE row.name]

\* The name column of an outer-joined row: None when the join found no row.
JoinedName(row) == IF row = Nil THEN PyNone ELSE [t |-> "str", s |-> row.name]

\* Lines 592-608: the task dict with the joined columns.
PersonTaskDict(row) ==
    [project_name |-> Projects[row.project_id].name,
     entity_name |-> Entities[row.entity_id].name,
     entity_preview_file_id |-> "",
     entity_type_name |-> EntityTypes[Entities[row.entity_id].entity_type_id].name,
     sequence_name |-> JoinedName(OuterJoinParent(Entities[row.entity_id])),
     episode_name |->
         JoinedName(OuterJoinParent(OuterJoinParent(Entities[row.entity_id]))),
     task_type_name |-> TaskTypes[row.task_type_id].name,
     task_status_name |-> statuses[row.task_status_id].name,
     task_type_color |-> TaskTypes[row.task_type_id].color,
     task_status_color |-> statuses[row.task_status_id].color,
     task_status_short_name |-> statuses[row.task_status_id].short_name]
    @@ SerializeTask(row)

\* Mutant: the object id is serialized before it is compared.
ObjectIdDiffers_Serialized(comment, task_id) ==
    serialize_value(ColId(comment.object_id)) # task_id

\* Line 621: comment.object_id != task_id, the id column against None or
\* the serialized id of the comment before.
ObjectIdDiffers(comment, task_id) == ColId(comment.object_id) # task_id

\* The loop of lines 619-627 over the ordered comments.
RECURSIVE CommentMapLoop(_, _, _)
CommentMapLoop(rows, task_id, task_comment_map) ==
    IF rows = <<>> THEN task_comment_map
    ELSE LET comment == Head(rows)
             new_id == serialize_value(ColId(comment.object_id))
         IN  IF ObjectIdDiffers(comment, task_id)
             THEN CommentMapLoop(
                      Tail(rows), new_id,
                      DictSet(task_comment_map, new_id,
                              [text |-> comment.text,
                               date |-> serialize_value(ColDate(comment.created_at)),
                               person_id |-> serialize_value(ColId(comment.person_id))]))
             ELSE CommentMapLoop(Tail(rows), task_id, task_comment_map)

\* Lines 628-632: last_comment of a task dict.
WithLastComment(task, task_comment_map) ==
    [last_comment |-> IF task.id \in DOMAIN task_comment_map
                      THEN task_comment_map[task.id]
                      ELSE <<>>] @@ task

\* Lines 554-634: the query, the comments of the tasks found, the result.
GetPersonTasksQuery(p) ==
    /\ At(p, "person_tasks_query")
    /\ \E tieDesc \in BOOLEAN :
           LET f == frames[p]
               project_ids == {ToColumn(project.id) : project \in f.args.projects}
               found == InOrder({i \in TaskRowIds :
                                    PersonTaskFilter(tasks[i], f.person, project_ids,
                                                     f.status)})
               task_dicts == [k \in DOMAIN found |-> PersonTaskDict(tasks[found[k]])]
               task_ids == {ToColumn(task_dicts[k].id) : k \in DOMAIN task_dicts}
               ordered == OrderedComments(
                              {i \in CommentRowIds : comments[i].object_id \in task_ids},
                              TRUE, FALSE, tieDesc)
               task_comment_map == CommentMapLoop(ordered, PyNone, <<>>)
           IN  SetFrame(p, Return(f, [k \in DOMAIN task_dicts |->
                                         WithLastComment(task_dicts[k], task_comment_map)]))
    /\ UNCHANGED <<statuses, tasks, now, last, time_spents, comments, deleted, hierarchy>>

\* The database after create_task for the entity under the names "main"
\* and "Secondary".
PersonTasksInit ==
    /\ statuses = <<[id |-> 1, name |-> "Todo", short_name |-> "todo",
                     color |-> "#f5f5f5", is_reviewable |-> FALSE]>>
    /\ tasks = [i \in 1 .. 2 |->
                  [id |-> i, name |-> IF i = 1 THEN "main" ELSE "Secondary",
                   duration |-> 0, estimation |-> 0,
                   completion_rate |-> 0, start_date |-> NULL, end_date |-> NULL,
                   due_date |-> NULL, real_start_date |-> NULL, project_id |-> 1,
                   task_type_id |-> 1, task_status_id |-> 1, entity_id |-> 1,
                   assigner_id |-> NULL, assignees |-> {}]]
    /\ now = 1
    /\ frames = [p \in Procs |-> IdleFrame]
    /\ last = Nil
    /\ time_spents = <<>>
    /\ comments = <<>>
    /\ deleted = {}
    /\ hierarchy = {}

\* One caller assigns the tasks (the first to either person, the second to
\* person 1), changes their status, posts comments on them and asks for a
\* person's tasks.
PersonTasksNext ==
    \/ Tick
    \/ \E pid \in PersonIds : AssignTaskCall(1, 1, pid)
    \/ AssignTaskCall(1, 2, 1)
    \/ AssignTaskSave(1)
    \/ AssignTaskEmit(1)
    \/ \E tid \in DOMAIN tasks, sid \in 1 .. Len(statuses) : UpdateTask(1, tid, sid)
    \/ \E text \in Texts : CreateComment(1, 1, 1, 1, text)
    \/ CreateComment(1, 2, 1, 1, "first")
    \/ \E pid \in PersonIds, projects \in ProjectArgs : GetPersonTasksCall(1, pid, projects)
    \/ GetPersonTasksQuery(1)
    \/ StatusLookup(1)
    \/ StatusCreate(1)
    \/ Finish(1)

PersonTasksSpec == PersonTasksInit /\ [][PersonTasksNext]_vars

\* shots_service.get_sequence_from_shot(shot): the sequence of the shot,
\* SequenceNotFoundException when the shot has none.
GetSequenceFromShot(p, shot_id) ==
    /\ At(p, "idle")
    /\ LET shot == SerializeEntity(Entities[shot_id])
           f == NewFrame("get_sequence_from_shot", [shot |-> shot])
           sequence == EntityOfType(ToColumn(shot.parent_id), "Sequence")
       IN  SetFrame(p, IF sequence = Nil
                       THEN Raise(f, "SequenceNotFoundException")
                       ELSE Return(f, SerializeEntity(sequence)))
    /\ UNCHANGED <<statuses, tasks, now, last, time_spents, comments, deleted, hierarchy>>

\* The shots of the Entity table.
ShotIds == {i \in EntityIds : EntityTypes[Entities[i].entity_type_id].name = "Shot"}

\* The database after create_task for each shot: task i is of the i-th
\* shot.
ShotTasksInit ==
    /\ statuses = <<[id |-> 1, name |-> "Todo", short_name |-> "todo",
                     color |-> "#f5f5f5", is_reviewable |-> FALSE]>>
    /\ tasks = [i \in 1 .. Cardinality(ShotIds) |->
                  [id |-> i, name |-> "main",
                   duration |-> 0, estimation |-> 0,
                   completion_rate |-> 0, start_date |-> NULL, end_date |-> NULL,
                   due_date |-> NULL, real_start_date |-> NULL, project_id |-> 1,
                   task_type_id |-> 1, task_status_id |-> 1,
                   entity_id |-> InOrder(ShotIds)[i],
                   assigner_id |-> NULL, assignees |-> {}]]
    /\ now = 1
    /\ frames = [p \in Procs |-> IdleFrame]
    /\ last = Nil
    /\ time_spents = <<>>
    /\ comments = <<>>
    /\ deleted = {}
    /\ hierarchy = {}

\* One caller assigns the tasks of the shots, asks for a person's tasks
\* and resolves the sequence of a shot.
ShotTasksNext ==
    \/ \E tid \in DOMAIN tasks, pid \in PersonIds : AssignTaskCall(1, tid, pid)
    \/ AssignTaskSave(1)
    \/ AssignTaskEmit(1)
    \/ \E pid \in PersonIds, projects \in ProjectArgs : GetPersonTasksCall(1, pid, projects)
    \/ GetPersonTasksQuery(1)
    \/ StatusLookup(1)
    \/ StatusCreate(1)
    \/ \E shot_id \in ShotIds : GetSequenceFromShot(1, shot_id)
    \/ Finish(1)

ShotTasksSpec == ShotTasksInit /\ [][ShotTasksNext]_vars

\* One caller assigns the task of a database that holds one, clears its
\* assignation, starts it, sends it to review, changes its status and asks
\* for a person's tasks.
ViewNext ==
    \/ \E pid \in PersonIds : AssignTaskCall(1, 1, pid)
    \/ AssignTaskSave(1)
    \/ AssignTaskEmit(1)
    \/ ClearAssignationCall(1, 1)
    \/ ClearAssignationUpdate(1)
    \/ ClearAssignationEmit(1)
    \/ StartTaskCall(1, 1)
    \/ StartTaskUpdate(1)
    \/ StartTaskEmit(1)
    \/ TaskToReviewCall(1, 1, SerializePerson(Persons[1]), "ok", "")
    \/ TaskToReviewUpdate(1)
    \/ TaskToReviewEmit(1)
    \/ \E sid \in StatusIdArgs : UpdateTask(1, 1, sid)
    \/ \E pid \in PersonIds, projects \in ProjectArgs : GetPersonTasksCall(1, pid, projects)
    \/ GetPersonTasksQuery(1)
    \/ StatusLookup(1)
    \/ StatusCreate(1)
    \/ Finish(1)

ViewSpec == RaceInit /\ [][ViewNext]_vars

\* ------------------------------------------------------ remove_task
\* What the database does with the TimeSpent and Comment rows of a deleted
\* task: it deletes them with the task, or refuses the deletion while
\* there are any.
DeletePolicies == {"cascade", "restrict"}

\* Mutant: the comments of the task are left behind.
DependentRows_TimeOnly(tid) ==
    {<<"TimeSpent", i>> : i \in {j \in TimeSpentRowIds : time_spents[j].task_id = tid}}

\* The TimeSpent and Comment rows that refer to a task.
DependentRows(tid) ==
    {<<"TimeSpent", i>> : i \in {j \in TimeSpentRowIds : time_spents[j].task_id = tid}}
    \cup {<<"Comment", i>> : i \in {j \in CommentRowIds : comments[j].object_id = tid}}

\* Lines 203-206: Task.get, task.delete(), task.serialize().
RemoveTask(p, tid) ==
    /\ At(p, "idle")
    /\ LET f == NewFrame("remove_task", [task_id |-> tid])
       IN  IF TaskGetError(tid) # ""
           THEN /\ SetFrame(p, Raise(f, TaskGetError(tid)))
                /\ UNCHANGED deleted
           ELSE \E policy \in DeletePolicies :
                    IF policy = "restrict" /\ DependentRows(tid) # {}
                    THEN /\ SetFrame(p, Raise(f, "IntegrityError"))
                         /\ UNCHANGED deleted
                    ELSE /\ deleted' = deleted \cup {<<"Task", tid>>} \cup DependentRows(tid)
                         /\ SetFrame(p, Return([f EXCEPT !.task = tasks[tid],
                                                         !.wrote = TRUE],
                                                SerializeTask(tasks[tid])))
    /\ UNCHANGED <<statuses, tasks, now, last, time_spents, comments, hierarchy>>

\* Task ids a caller may pass: a row's, one of no row and a malformed one.
LookupIdArgs == TaskIdArgs \cup {MalformedId}

\* One caller calls the operations that take a task id, with any of these
\* ids, on a database that holds one task.
LookupNext ==
    \/ \E tid \in LookupIdArgs :
           \/ StartTaskCall(1, tid)
           \/ TaskToReviewCall(1, tid, SerializePerson(Persons[1]), "ok", "")
           \/ \E pid \in PersonIds : AssignTaskCall(1, tid, pid)
           \/ ClearAssignationCall(1, tid)
           \/ \E sid \in 1 .. Len(statuses) : UpdateTask(1, tid, sid)
           \/ RemoveTask(1, tid)
    \/ StartTaskUpdate(1)
    \/ StartTaskEmit(1)
    \/ TaskToReviewUpdate(1)
    \/ TaskToReviewEmit(1)
    \/ AssignTaskSave(1)
    \/ AssignTaskEmit(1)
    \/ ClearAssignationUpdate(1)
    \/ ClearAssignationEmit(1)
    \/ StatusLookup(1)
    \/ StatusCreate(1)
    \/ Finish(1)

LookupSpec == RaceInit /\ [][LookupNext]_vars

\* One caller records time and posts comments on the tasks of a database
\* that holds two, assigns them, removes them and reads the ledger, the
\* comments and a person's tasks back.
RemoveNext ==
    \/ \E tid \in TaskRowIds :
           \/ CreateOrUpdateTimeSpentCall(1, tid, 1, "2024-01-01", 1, FALSE)
           \/ CreateComment(1, tid, 1, 1, "first")
           \/ AssignTaskCall(1, tid, 1)
    \/ CreateOrUpdateTimeSpentWrite(1)
    \/ AssignTaskSave(1)
    \/ AssignTaskEmit(1)
    \/ \E tid \in DOMAIN tasks :
           \/ RemoveTask(1, tid)
           \/ GetTimeSpents(1, tid)
           \/ GetComments(1, tid)
    \/ GetPersonTasksCall(1, 1, {SerializeProject(Projects[i]) : i \in ProjectIds})
    \/ GetPersonTasksQuery(1)
    \/ StatusLookup(1)
    \/ StatusCreate(1)
    \/ Finish(1)

RemoveSpec == PersonTasksInit /\ [][RemoveNext]_vars

\* The names concurrent callers ask for, each with the default short name.
StatusRaceNames == {"Todo", WIP_TASK_STATUS}

\* Two callers call get_or_create_status at once on a registry that starts
\* empty: each looks up, then creates.
StatusRaceNext ==
    \E p \in Procs :
        \/ \E name \in StatusRaceNames : GetOrCreateStatusCall(p, name, "")
        \/ StatusLookup(p)
        \/ StatusCreate(p)
        \/ StatusReturn(p)
        \/ Finish(p)

StatusRaceSpec == Init /\ [][StatusRaceNext]_vars

\* The four accessors of the canonical statuses.
Accessors == {"get_todo_status", "get_wip_status", "get_to_review_status",
              "get_done_status"}

\* Lines 39-52: a caller calls an accessor, which calls
\* get_or_create_status with its name and short name and returns its
\* result.
AccessorCall(p, accessor) ==
    /\ At(p, "idle")
    /\ LET f == NewFrame(accessor, [accessor |-> accessor])
       IN  SetFrame(p, CASE accessor = "get_todo_status" ->
                                get_todo_status(f, "status_return")
                         [] accessor = "get_wip_status" ->
                                get_wip_status(f, "status_return")
                         [] accessor = "get_to_review_status" ->
                                get_to_review_status(f, "status_return")
                         [] accessor = "get_done_status" ->
                                get_done_status(f, "status_return"))
    /\ UNCHANGED <<statuses, tasks, now, last, time_spents, comments, deleted, hierarchy>>

\* The names and short names custom statuses are created with.
CustomNames == {DONE_TASK_STATUS, "Retake"}

CustomShortNames == {"wip", "todo"}

\* One caller creates custom statuses and calls the accessors, on a
\* registry that starts empty.
AccessorNext ==
    \/ \E name \in CustomNames, short \in CustomShortNames :
           GetOrCreateStatusCall(1, name, short)
    \/ \E accessor \in Accessors : AccessorCall(1, accessor)
    \/ StatusLookup(1)
    \/ StatusCreate(1)
    \/ StatusReturn(1)
    \/ Finish(1)

AccessorSpec == Init /\ [][AccessorNext]_vars

\* ------------------------------------------------------ shot resources
\* The subclasses of werkzeug's NotFound; an exception of one of them that
\* leaves a handler is answered with 404.
NotFoundExceptions ==
    {"EpisodeNotFoundException", "SequenceNotFoundException",
     "ShotNotFoundException", "SceneNotFoundException",
     "AssetNotFoundException", "AssetInstanceNotFoundException",
     "AssetTypeNotFoundException", "TaskNotFoundException",
     "DepartmentNotFoundException", "TaskStatusNotFoundException",
     "TaskTypeNotFoundException", "PersonNotFoundException",
     "ProjectNotFoundException", "WorkingFileNotFoundException",
     "OutputFileNotFoundException", "SoftwareNotFoundException",
     "OutputTypeNotFoundException", "PreviewFileNotFoundException",
     "CommentNotFoundException", "EntityNotFoundException"}

\* The status a permission denial is answered with, caught (abort(403)) or
\* not.
PermissionDeniedCode == 403

\* Mutant: only the not-found exceptions have a status of their own.
HttpCode_NotFoundOnly(exc) == IF exc \in NotFoundExceptions THEN 404 ELSE 500

\* The status of the response to a request whose handling raised exc.
HttpCode(exc) ==
    CASE exc \in NotFoundExceptions -> 404
      [] exc = "PermissionDenied" -> PermissionDeniedCode
      [] OTHER -> 500

\* abort(code) and an exception that leaves the handler: the request ends
\* with the status of the exception and no body.
Abort(f, exc) == [Raise(f, exc) EXCEPT !.ret = [code |-> HttpCode(exc), body |-> Nil]]

\* return body, code
Respond(f, body, code) == Return(f, [code |-> code, body |-> body])

\* The exception of a handler's lookup of a record, "" when it finds one.
\* "none" is a handler that looks nothing up.
LookupError(kind, i) ==
    CASE kind = "none" -> ""
      [] kind = "Project" ->
            IF ProjectGet(i) = Nil THEN "ProjectNotFoundException" ELSE ""
      [] OTHER ->
            IF EntityOfType(i, kind) = Nil THEN kind \o "NotFoundException" ELSE ""

\* The ids a request may carry for a lookup: a record's and one of none.
IdArgs(kind) ==
    CASE kind = "none" -> {NULL}
      [] kind = "Project" -> {1, 2}
      [] kind = "Shot" -> {5, 8}
      [] kind = "Scene" -> {7, 8}
      [] kind = "Sequence" -> {3, 8}
      [] kind = "Episode" -> {2, 8}

\* The write handlers: what each looks up before the permission check, the
\* kind of record its service call is about, the call, and the status of
\* its success.
WriteEndpoints ==
    {[name |-> "ShotResource.delete", lookup |-> "none", kind |-> "Shot",
      mutation |-> "remove_shot", code |-> 204],
     [name |-> "SceneResource.delete", lookup |-> "none", kind |-> "Scene",
      mutation |-> "remove_scene", code |-> 204],
     [name |-> "ProjectShotsResource.post", lookup |-> "Project", kind |-> "Project",
      mutation |-> "create_shot", code |-> 201],
     [name |-> "ProjectSequencesResource.post", lookup |-> "Project", kind |-> "Project",
      mutation |-> "create_sequence", code |-> 201],
     [name |-> "ProjectEpisodesResource.post", lookup |-> "Project", kind |-> "Project",
      mutation |-> "create_episode", code |-> 201],
     [name |-> "ProjectScenesResource.post", lookup |-> "Project", kind |-> "Project",
      mutation |-> "create_scene", code |-> 201],
     [name |-> "CastingResource.put", lookup |-> "none", kind |-> "Shot",
      mutation |-> "update_casting", code |-> 200],
     [name |-> "ShotAssetInstancesResource.post", lookup |-> "Shot", kind |-> "Shot",
      mutation |-> "add_asset_instance_to_shot", code |-> 201]}

WriteNames == {ep.name : ep \in WriteEndpoints}

DeleteNames == {"ShotResource.delete", "SceneResource.delete"}

\* A write request arrives; manager is what the permission layer will
\* answer about its user.
WriteRequest(p, ep, i, manager) ==
    /\ At(p, "idle")
    /\ SetFrame(p, [NewFrame(ep.name, [ep |-> ep, id |-> i, manager |-> manager])
                        EXCEPT !.pc = "write_lookup"])
    /\ UNCHANGED <<statuses, tasks, now, last, time_spents, comments, deleted, hierarchy>>

\* The step of a write handler that follows its lookup: the permission
\* check.
AfterLookup_Mutate == "write_mutate"

AfterLookup == "write_check"

\* projects_service.get_project(project_id) / shots_service.get_shot(shot_id)
WriteLookup(p) ==
    /\ At(p, "write_lookup")
    /\ LET f == frames[p]
           missing == LookupError(f.args.ep.lookup, f.args.id)
       IN  SetFrame(p, IF missing # ""
                       THEN Abort(f, missing)
                       ELSE [f EXCEPT !.pc = AfterLookup])
    /\ UNCHANGED <<statuses, tasks, now, last, time_spents, comments, deleted, hierarchy>>

\* permissions.check_manager_permissions(): raises PermissionDenied unless
\* the user is a manager.
check_manager_permissions(manager) == IF manager THEN "" ELSE "PermissionDenied"

WriteCheck(p) ==
    /\ At(p, "write_check")
    /\ LET f == frames[p]
           denied == check_manager_permissions(f.args.manager)
       IN  SetFrame(p, IF denied # ""
                       THEN Abort(f, denied)
                       ELSE [f EXCEPT !.pc = "write_mutate", !.checked = TRUE])
    /\ UNCHANGED <<statuses, tasks, now, last, time_spents, comments, deleted, hierarchy>>

\* The service call of a write handler and its return.  remove_shot and
\* remove_scene delete the record and return what it was; the other calls
\* add what they create to the hierarchy.  A call about a record that does
\* not exist raises its not-found exception and writes nothing.
WriteMutate(p) ==
    /\ At(p, "write_mutate")
    /\ LET f == frames[p]
           ep == f.args.ep
           missing == LookupError(ep.kind, f.args.id)
       IN  IF missing # ""
           THEN /\ SetFrame(p, Abort(f, missing))
                /\ UNCHANGED <<deleted, hierarchy>>
           ELSE IF ep.name \in DeleteNames
           THEN /\ deleted' = deleted \cup {<<"Entity", f.args.id>>}
                /\ SetFrame(p, Respond([f EXCEPT !.wrote = TRUE],
                                       SerializeEntity(Entities[f.args.id]), ep.code))
                /\ UNCHANGED hierarchy
           ELSE /\ hierarchy' = hierarchy \cup {<<ep.mutation, f.args.id>>}
                /\ SetFrame(p, Respond([f EXCEPT !.wrote = TRUE],
                                       <<ep.mutation, f.args.id>>, ep.code))
                /\ UNCHANGED deleted
    /\ UNCHANGED <<statuses, tasks, now, last, time_spents, comments>>

\* The read handlers: what each looks up first, and the check a user who
\* is no manager must pass: check_has_task_related(project_id),
\* check_criterions_has_task_related(criterions) or, run for every user,
\* check_project_access(project_id).
ReadEndpoints ==
    {[name |-> "ShotResource.get", lookup |-> "Shot", guard |-> "task_related"],
     [name |-> "SceneResource.get", lookup |-> "Scene", guard |-> "task_related"],
     [name |-> "ShotsResource.get", lookup |-> "none", guard |-> "criterions"],
     [name |-> "ScenesResource.get", lookup |-> "none", guard |-> "criterions"],
     [name |-> "ShotAssetsResource.get", lookup |-> "Shot", guard |-> "task_related"],
     [name |-> "ShotTaskTypesResource.get", lookup |-> "Shot", guard |-> "task_related"],
     [name |-> "ShotTasksResource.get", lookup |-> "Shot", guard |-> "task_related"],
     [name |-> "SequenceTasksResource.get", lookup |-> "Sequence", guard |-> "task_related"],
     [name |-> "SequenceTaskTypesResource.get", lookup |-> "Sequence", guard |-> "task_related"],
     [name |-> "ShotsAndTasksResource.get", lookup |-> "none", guard |-> "criterions"],
     [name |-> "ProjectShotsResource.get", lookup |-> "Project", guard |-> "task_related"],
     [name |-> "ProjectSequencesResource.get", lookup |-> "Project", guard |-> "task_related"],
     [name |-> "ProjectEpisodesResource.get", lookup |-> "Project", guard |-> "task_related"],
     [name |-> "EpisodeResource.get", lookup |-> "Episode", guard |-> "task_related"],
     [name |-> "EpisodesResource.get", lookup |-> "none", guard |-> "criterions"],
     [name |-> "EpisodeSequencesResource.get", lookup |-> "Episode", guard |-> "task_related"],
     [name |-> "SequenceResource.get", lookup |-> "Sequence", guard |-> "task_related"],
     [name |-> "SequencesResource.get", lookup |-> "none", guard |-> "criterions"],
     [name |-> "SequenceShotsResource.get", lookup |-> "Sequence", guard |-> "task_related"],
     [name |-> "CastingResource.get", lookup |-> "Shot", guard |-> "task_related"],
     [name |-> "ProjectScenesResource.get", lookup |-> "Project", guard |-> "task_related"],
     [name |-> "SequenceScenesResource.get", lookup |-> "Sequence", guard |-> "task_related"],
     [name |-> "SceneTaskTypesResource.get", lookup |-> "Scene", guard |-> "task_related"],
     [name |-> "SceneTasksResource.get", lookup |-> "Scene", guard |-> "task_related"],
     [name |-> "ShotAssetInstancesResource.get", lookup |-> "Shot", guard |-> "project_access"]}

ReadNames == {ep.name : ep \in ReadEndpoints}

\* A read request arrives; manager and allow are what the permission layer
\* will answer about its user and about the user's relation to the project
\* or the criterions.
ReadRequest(p, ep, i, manager, allow) ==
    /\ At(p, "idle")
    /\ SetFrame(p, [NewFrame(ep.name, [ep |-> ep, id |-> i, manager |-> manager,
                                       allow |-> allow])
                        EXCEPT !.pc = "read_lookup"])
    /\ UNCHANGED <<statuses, tasks, now, last, time_spents, comments, deleted, hierarchy>>

\* shots_service.get_shot(shot_id) and the like, or
\* query.get_query_criterions_from_request(request)
ReadLookup(p) ==
    /\ At(p, "read_lookup")
    /\ LET f == frames[p]
           missing == LookupError(f.args.ep.lookup, f.args.id)
       IN  SetFrame(p, IF missing # ""
                       THEN Abort(f, missing)
                       ELSE [f EXCEPT !.pc = "read_check"])
    /\ UNCHANGED <<statuses, tasks, now, last, time_spents, comments, deleted, hierarchy>>

\* user_service.check_has_task_related / check_criterions_has_task_related
\* / check_project_access: raise PermissionDenied unless the permission
\* layer allows the user.
check_has_task_related(allow) == IF allow THEN "" ELSE "PermissionDenied"

\* Whether a read handler runs its check: only for a user who is no
\* manager, except the handler that always runs check_project_access.
RunsCheck_ProjectAccessOnly(guard, manager) == guard = "project_access"

RunsCheck(guard, manager) == guard = "project_access" \/ ~manager

\* check_project_access lets a manager through.
CheckOutcome(guard, manager, allow) ==
    IF guard = "project_access" /\ manager THEN "" ELSE check_has_task_related(allow)

ReadCheck(p) ==
    /\ At(p, "read_check")
    /\ LET f == frames[p]
           a == f.args
           denied == IF RunsCheck(a.ep.guard, a.manager)
                     THEN CheckOutcome(a.ep.guard, a.manager, a.allow)
                     ELSE ""
       IN  SetFrame(p, IF denied # ""
                       THEN Abort(f, denied)
                       ELSE [f EXCEPT !.pc = "read_return",
                                      !.checked = RunsCheck(a.ep.guard, a.manager)])
    /\ UNCHANGED <<statuses, tasks, now, last, time_spents, comments, deleted, hierarchy>>

\* return <the data>: the records read, here the hierarchy written so far
\* and the removed records.
ReadReturn(p) ==
    /\ At(p, "read_return")
    /\ SetFrame(p, Respond(frames[p], [hierarchy |-> hierarchy, deleted |-> deleted], 200))
    /\ UNCHANGED <<statuses, tasks, now, last, time_spents, comments, deleted, hierarchy>>

\* One client at a time sends requests to the shot resources of a database
\* with no task.
ApiNext ==
    \/ \E ep \in WriteEndpoints, manager \in BOOLEAN :
           \E i \in IdArgs(ep.kind) : WriteRequest(1, ep, i, manager)
    \/ WriteLookup(1)
    \/ WriteCheck(1)
    \/ WriteMutate(1)
    \/ \E ep \in ReadEndpoints, manager \in BOOLEAN, allow \in BOOLEAN :
           \E i \in IdArgs(ep.lookup) : ReadRequest(1, ep, i, manager, allow)
    \/ ReadLookup(1)
    \/ ReadCheck(1)
    \/ ReadReturn(1)
    \/ Finish(1)

ApiSpec == Init /\ [][ApiNext]_vars

\* ------------------------------------------------------------ properties
\* The id of the status get_or_create_status(name, short) finds, NULL
\* while the registry holds none.
StatusId(name, short) ==
    IF LookupStatus(name, short) = Nil THEN NULL ELSE LookupStatus(name, short).id

WipId == StatusId(WIP_TASK_STATUS, "wip")

ReviewId == StatusId(TO_REVIEW_TASK_STATUS, "pndng")

TodoId == StatusId("Todo", "")

\* Caller p's call of op has returned (it did not raise).
Returned(p, op) ==
    /\ frames[p].op = op
    /\ frames[p].pc = "done"
    /\ frames[p].exc = ""

\* The task row a finished call was about, before and after the call.
Old(p) == frames[p].pre[frames[p].args.task_id]

New(p) == tasks[frames[p].args.task_id]

\* C1: start_task on a task whose status is not wip (null included) sets the
\* status to wip, sets real_start_date to the current time when it was null
\* (and touches no other column), and emits exactly one task:start event
\* whose task_before is the snapshot before the call and whose task_after
\* is the snapshot after it.
C1_StartTaskStarts ==
    \A p \in Procs :
        (Returned(p, "start_task") /\ Old(p).task_status_id # WipId) =>
            /\ WipId # NULL
            /\ New(p) = [Old(p) EXCEPT
                            !.task_status_id = WipId,
                            !.real_start_date = New(p).real_start_date]
            /\ Old(p).real_start_date = NULL =>
                   New(p).real_start_date \in frames[p].t0 .. now
            /\ Old(p).real_start_date # NULL =>
                   New(p).real_start_date = Old(p).real_start_date
            /\ frames[p].emitted =
                   <<[name |-> "task:start",
                      data |-> [task_before |-> SerializeTask(Old(p)),
                                task_after |-> SerializeTask(New(p))]]>>

\* C1 witness: start_task has returned on a task whose status was null and
\* whose real_start_date was null, and one event was emitted.
C1_Witness ==
    \E p \in Procs :
        /\ Returned(p, "start_task")
        /\ Old(p).task_status_id = NULL
        /\ Old(p).real_start_date = NULL
        /\ Len(frames[p].emitted) = 1

\* C2: start_task on a task that is already in wip status changes no stored
\* row and emits no event.
C2_StartTaskOnWipIsNoOp ==
    \A p \in Procs :
        (Returned(p, "start_task") /\ WipId # NULL /\ Old(p).task_status_id = WipId) =>
            /\ tasks = frames[p].pre
            /\ frames[p].emitted = <<>>

\* C3: in every sequential history a real_start_date that is set never
\* changes again; start_task on a task in review whose real_start_date is
\* set puts the task back to wip, emits task:start and keeps the date.
C3_RealStartDateSetOnce ==
    /\ [][\A t \in DOMAIN tasks :
            tasks[t].real_start_date # NULL =>
                /\ t \in DOMAIN tasks'
                /\ tasks'[t].real_start_date = tasks[t].real_start_date]_vars
    /\ [](\A p \in Procs :
            (/\ Returned(p, "start_task")
             /\ ReviewId # NULL
             /\ Old(p).task_status_id = ReviewId
             /\ Old(p).real_start_date # NULL) =>
                /\ New(p).task_status_id = WipId
                /\ New(p).real_start_date = Old(p).real_start_date
                /\ Len(frames[p].emitted) = 1
                /\ frames[p].emitted[1].name = "task:start")

\* C3 witness: start_task has returned on a task that was in review, started
\* at an earlier time than now.
C3_Witness ==
    \E p \in Procs :
        /\ Returned(p, "start_task")
        /\ ReviewId # NULL
        /\ Old(p).task_status_id = ReviewId
        /\ Old(p).real_start_date # NULL
        /\ Old(p).real_start_date < frames[p].t0
        /\ Len(frames[p].emitted) = 1

\* C5: task_to_review sets the status to pending-review whatever it was, and
\* every call emits one task:to-review event whose task_after carries that
\* status and the project, entity, entity type, person, comment and
\* preview path.
C5_ToReviewAlwaysEmits ==
    \A p \in Procs :
        Returned(p, "task_to_review") =>
            /\ ReviewId # NULL
            /\ New(p) = [Old(p) EXCEPT !.task_status_id = ReviewId]
            /\ Len(frames[p].emitted) = 1
            /\ LET e == frames[p].emitted[1]
                   after == e.data.task_after
               IN  /\ e.name = "task:to-review"
                   /\ e.data.task_before = SerializeTask(Old(p))
                   /\ after.task_status_id = PyStr(ReviewId)
                   /\ after.id = PyStr(frames[p].args.task_id)
                   /\ after.project = SerializeProject(Projects[Old(p).project_id])
                   /\ after.entity = SerializeEntity(Entities[Old(p).entity_id])
                   /\ after.entity_type =
                          SerializeEntityType(
                              EntityTypes[Entities[Old(p).entity_id].entity_type_id])
                   /\ after.person = frames[p].args.person
                   /\ after.comment = frames[p].args.comment
                   /\ after.preview_path = frames[p].args.preview_path

\* C5 witness: task_to_review has returned on a task that was already in
\* pending-review, with one event emitted.
C5_Witness ==
    \E p \in Procs :
        /\ Returned(p, "task_to_review")
        /\ ReviewId # NULL
        /\ Old(p).task_status_id = ReviewId
        /\ Len(frames[p].emitted) = 1

\* The operations that emit lifecycle events, and the event of each.
LifecycleOps == {"start_task", "task_to_review", "assign_task", "clear_assignation"}

EventOf(op) ==
    CASE op = "start_task" -> "task:start"
      [] op = "task_to_review" -> "task:to-review"
      [] op = "assign_task" -> "task:assign"
      [] op = "clear_assignation" -> "task:unassign"

\* Caller p's call of a lifecycle operation has ended, returning or raising.
Ended(p) == frames[p].pc = "done" /\ frames[p].op \in LifecycleOps

\* C6 as stated: a lifecycle call that changed the stored task emitted its
\* event, and no call emitted its event twice.
C6_OneEventPerCall ==
    \A p \in Procs :
        Ended(p) =>
            /\ frames[p].wrote => Len(frames[p].emitted) = 1
            /\ Len(frames[p].emitted) <= 1

\* C6 amended: a lifecycle call emits only its own event; start_task,
\* task_to_review and assign_task emit it once when they changed the
\* stored task and never twice; clear_assignation emits task:unassign once
\* per previously assigned person; a call that raises emits nothing and
\* changes nothing.
C6_OneEventPerMutation ==
    \A p \in Procs :
        Ended(p) =>
            LET f == frames[p]
            IN  /\ \A i \in 1 .. Len(f.emitted) : f.emitted[i].name = EventOf(f.op)
                /\ f.wrote => Len(f.emitted) >= 1
                /\ f.op # "clear_assignation" => Len(f.emitted) <= 1
                /\ (f.op = "clear_assignation" /\ f.exc = "") =>
                       /\ Len(f.emitted) = Cardinality(Old(p).assignees)
                       /\ \A a \in Old(p).assignees :
                              \E i \in 1 .. Len(f.emitted) :
                                  f.emitted[i].data.person = SerializePerson(Persons[a])
                /\ f.exc # "" => (f.emitted = <<>> /\ ~f.wrote /\ tasks = f.pre)

\* C6 witness: clear_assignation has returned on a task that had two
\* assignees, with two events emitted.
C6_Witness ==
    \E p \in Procs :
        /\ Returned(p, "clear_assignation")
        /\ Cardinality(Old(p).assignees) = 2
        /\ Len(frames[p].emitted) = 2
        /\ New(p).assignees = {}

\* C9: a task created by create_task is in the todo status with
\* completion_rate, duration and estimation 0, the four dates null and no
\* assignee; its assigner is the current user, or null without one.
C9_CreatedTaskInitialState ==
    \A p \in Procs :
        (Returned(p, "create_task") /\ frames[p].ret # PyNone) =>
            LET row == tasks[ToColumn(frames[p].ret.id)]
            IN  /\ TodoId # NULL
                /\ row.task_status_id = TodoId
                /\ statuses[TodoId].name = "Todo"
                /\ row.completion_rate = 0
                /\ row.duration = 0
                /\ row.estimation = 0
                /\ row.start_date = NULL
                /\ row.end_date = NULL
                /\ row.due_date = NULL
                /\ row.real_start_date = NULL
                /\ row.assignees = {}
                /\ row.assigner_id = frames[p].args.current_user
                /\ row.name = frames[p].args.name
                /\ row.entity_id = ToColumn(frames[p].args.entity.id)
                /\ row.task_type_id = frames[p].args.task_type.id

\* C9 witness: create_task has returned a task created by an authenticated
\* user.
C9_Witness ==
    \E p \in Procs :
        /\ Returned(p, "create_task")
        /\ frames[p].ret # PyNone
        /\ frames[p].args.current_user # NULL
        /\ tasks[ToColumn(frames[p].ret.id)].assigner_id = frames[p].args.current_user

\* C4: when start_task calls interleave, a real_start_date that is set is
\* not overwritten by the later writer.
C4_FirstStartDateKept ==
    [][\A t \in DOMAIN tasks :
          tasks[t].real_start_date # NULL =>
              tasks'[t].real_start_date = tasks[t].real_start_date]_vars

C8_CreateTaskIdempotent ==
    /\ \A p \in Procs : frames[p].op = "create_task" => frames[p].exc = ""
    /\ \A i, j \in DOMAIN tasks :
           (tasks[i].entity_id = tasks[j].entity_id
            /\ tasks[i].task_type_id = tasks[j].task_type_id) => i = j
    /\ \A p \in Procs :
           Returned(p, "create_task") => (frames[p].ret = PyNone <=> ~frames[p].wrote)

\* The rows of the registry that carry a name.
RowsNamed(name) == {i \in 1 .. Len(statuses) : statuses[i].name = name}

\* Caller p's get_or_create_status call has ended right after another one
\* with the same name.
SecondCall(p) ==
    /\ frames[p].op = "get_or_create_status"
    /\ frames[p].pc = "done"
    /\ last # Nil
    /\ last.args.name = frames[p].args.name

C11_ConcurrentCallsAllReturn ==
    /\ \A i, j \in 1 .. Len(statuses) :
           (statuses[i].name = statuses[j].name
            \/ statuses[i].short_name = statuses[j].short_name) => i = j
    /\ \A p \in Procs :
           (frames[p].op = "get_or_create_status" /\ frames[p].pc = "done") =>
               /\ frames[p].exc = ""
               /\ frames[p].ret = SerializeStatus(GetStatusByName(frames[p].args.name))

\* C12: clear_assignation on a task with n assignees leaves the task with
\* no assignee and emits exactly n task:unassign events, one per person
\* that was assigned, each carrying that person's snapshot and the task's
\* snapshot; on a task without assignees it emits nothing.
C12_OneUnassignPerAssignee ==
    \A p \in Procs :
        Returned(p, "clear_assignation") =>
            LET ev == frames[p].emitted
            IN  /\ New(p).assignees = {}
                /\ Len(ev) = Cardinality(Old(p).assignees)
                /\ {ev[i].data.person : i \in DOMAIN ev} =
                       {SerializePerson(Persons[a]) : a \in Old(p).assignees}
                /\ \A i \in DOMAIN ev :
                       /\ ev[i].name = "task:unassign"
                       /\ ev[i].data.task = SerializeTask(New(p))
                /\ frames[p].ret = SerializeTask(New(p))

\* C12 witness: clear_assignation has returned on a task that persons 1
\* and 2 were assigned to, with one event for each.
C12_Witness ==
    \E p \in Procs :
        /\ Returned(p, "clear_assignation")
        /\ Old(p).assignees = PersonIds
        /\ frames[p].emitted[1].data.person = SerializePerson(Persons[1])
        /\ frames[p].emitted[2].data.person = SerializePerson(Persons[2])
        /\ New(p).assignees = {}

\* C12, the empty case: clear_assignation has returned on a task nobody
\* was assigned to and has emitted nothing.
C12_WitnessEmpty ==
    \E p \in Procs :
        /\ Returned(p, "clear_assignation")
        /\ Old(p).assignees = {}
        /\ frames[p].emitted = <<>>

\* The TimeSpent rows of a table that carry the key of caller p's call.
RowsOfKey(table, p) ==
    {i \in DOMAIN table :
        /\ table[i].task_id = frames[p].args.task_id
        /\ table[i].person_id = frames[p].args.person_id
        /\ table[i].date = frames[p].args.date}

\* The duration a table holds for the key of caller p's call; NULL for none.
DurationOfKey(table, p) ==
    IF RowsOfKey(table, p) = {} THEN NULL
    ELSE table[CHOOSE i \in RowsOfKey(table, p) : TRUE].duration

\* C13: after any sequence of create_or_update_time_spent calls there is at
\* most one TimeSpent row per (task, person, date); a call on an absent key
\* creates the row with the given duration, a call with add on a present
\* key stores the existing duration plus the given one, a call without add
\* overwrites it, and no other row changes.
C13_OneRowPerKey ==
    /\ \A i, j \in DOMAIN time_spents :
           (/\ time_spents[i].task_id = time_spents[j].task_id
            /\ time_spents[i].person_id = time_spents[j].person_id
            /\ time_spents[i].date = time_spents[j].date) => i = j
    /\ \A p \in Procs :
           Returned(p, "create_or_update_time_spent") =>
               LET a == frames[p].args
                   old == frames[p].pre_times
               IN  /\ Cardinality(RowsOfKey(time_spents, p)) = 1
                   /\ DurationOfKey(time_spents, p) =
                          IF RowsOfKey(old, p) = {} THEN a.duration
                          ELSE IF a.add THEN DurationOfKey(old, p) + a.duration
                          ELSE a.duration
                   /\ frames[p].ret.duration = DurationOfKey(time_spents, p)
                   /\ \A i \in DOMAIN old :
                          i \notin RowsOfKey(old, p) => time_spents[i] = old[i]
                   /\ Len(time_spents) =
                          Len(old) + IF RowsOfKey(old, p) = {} THEN 1 ELSE 0

\* C13 witness: a call with add and duration 2 has returned on a key that
\* held duration 2, and the key's one row holds 4.
C13_Witness ==
    \E p \in Procs :
        /\ Returned(p, "create_or_update_time_spent")
        /\ frames[p].args.add
        /\ frames[p].args.duration = 2
        /\ DurationOfKey(frames[p].pre_times, p) = 2
        /\ DurationOfKey(time_spents, p) = 4
        /\ Cardinality(RowsOfKey(time_spents, p)) = 1

\* Caller p's create_or_update_time_spent call with add has ended.
AddEnded(p) ==
    /\ frames[p].op = "create_or_update_time_spent"
    /\ frames[p].pc = "done"
    /\ frames[p].args.add

\* C14: when two create_or_update_time_spent calls with add for the same
\* (task, person, date) run at once (both began on the same table), neither
\* fails and the key's one row holds the previous duration plus both
\* amounts.
C14_ConcurrentAccumulate ==
    \A p, q \in Procs :
        (/\ p # q
         /\ AddEnded(p)
         /\ AddEnded(q)
         /\ RowsOfKey(time_spents, p) = RowsOfKey(time_spents, q)
         /\ frames[p].pre_times = frames[q].pre_times) =>
            /\ frames[p].exc = ""
            /\ frames[q].exc = ""
            /\ Cardinality(RowsOfKey(time_spents, p)) = 1
            /\ DurationOfKey(time_spents, p) =
                   DurationOfKey(frames[p].pre_times, p)
                   + frames[p].args.duration + frames[q].args.duration

\* The TimeSpent rows of a task, and the sum of the durations of a set of
\* rows.
RowsOfTask(tid) == {i \in DOMAIN time_spents : time_spents[i].task_id = tid}

RECURSIVE SumOfDurations(_)
SumOfDurations(rows) ==
    IF rows = {} THEN 0
    ELSE LET i == CHOOSE x \in rows : TRUE
         IN  time_spents[i].duration + SumOfDurations(rows \ {i})

\* C15: get_time_spents returns a total equal to the sum of the durations
\* of all TimeSpent rows of the task, together with one entry under the id
\* of each person who has rows for the task, that entry being one of the
\* person's rows; for a task without rows it returns exactly {"total": 0}.
C15_TotalIsSumOfDurations ==
    \A p \in Procs :
        Returned(p, "get_time_spents") =>
            LET rows == RowsOfTask(frames[p].args.task_id)
                ret == frames[p].ret
            IN  /\ ret["total"] = SumOfDurations(rows)
                /\ DOMAIN ret =
                       {"total"} \cup {PersonKey(time_spents[i].person_id) : i \in rows}
                /\ \A i \in rows :
                       \E j \in rows :
                           /\ time_spents[j].person_id = time_spents[i].person_id
                           /\ ret[PersonKey(time_spents[i].person_id)] =
                                  SerializeTimeSpent(time_spents[j])
                /\ rows = {} => ret = [total |-> 0]

\* C15 witness: get_time_spents has returned entries of two persons, one
\* of them with rows on two dates, and a total of 4.
C15_Witness ==
    \E p \in Procs :
        /\ Returned(p, "get_time_spents")
        /\ Cardinality(RowsOfTask(frames[p].args.task_id)) = 3
        /\ DOMAIN frames[p].ret = {"total", PersonKey(1), PersonKey(2)}
        /\ frames[p].ret["total"] = 4

\* C15, the empty case: get_time_spents has returned {"total": 0} for a
\* task without rows while another task has rows.
C15_WitnessEmpty ==
    \E p \in Procs :
        /\ Returned(p, "get_time_spents")
        /\ RowsOfTask(frames[p].args.task_id) = {}
        /\ time_spents # <<>>
        /\ frames[p].ret = [total |-> 0]

\* C18: the status get_comments shows for a comment is the one stored on
\* the comment when it was posted.  Step by step: create_comment stores the
\* status id it is given, no later step (start_task and task_to_review
\* included) changes a comment's status id, and every entry get_comments
\* returns carries the id and the name of the status stored on its comment.
C18_CommentKeepsPostedStatus ==
    [][/\ \A i \in DOMAIN comments :
              /\ i \in DOMAIN comments'
              /\ comments'[i].task_status_id = comments[i].task_status_id
       /\ \A p \in Procs :
              (frames[p].pc = "idle" /\ frames'[p].pc = "done") =>
                  /\ frames'[p].op = "create_comment" =>
                         /\ Len(comments') = Len(comments) + 1
                         /\ comments'[Len(comments')].task_status_id =
                                frames'[p].args.task_status_id
                  /\ frames'[p].op = "get_comments" =>
                         /\ {ToColumn(frames'[p].ret[k].id) : k \in DOMAIN frames'[p].ret} =
                                {i \in DOMAIN comments :
                                    comments[i].object_id = frames'[p].args.task_id}
                         /\ \A k \in DOMAIN frames'[p].ret :
                                LET entry == frames'[p].ret[k]
                                    stored == comments[ToColumn(entry.id)].task_status_id
                                IN  /\ entry.task_status.id = PyStr(stored)
                                    /\ entry.task_status.name = statuses[stored].name
      ]_vars

\* C18 witness: get_comments has returned two comments posted under
\* different statuses, the older of them under a status the task has left
\* since.
C18_Witness ==
    \E p \in Procs :
        /\ Returned(p, "get_comments")
        /\ Len(frames[p].ret) >= 2
        /\ frames[p].ret[1].task_status.id # frames[p].ret[2].task_status.id
        /\ frames[p].ret[2].task_status.id #
               PyStr(tasks[frames[p].args.task_id].task_status_id)
        /\ tasks[frames[p].args.task_id].task_status_id = ReviewId

\* The id of the done status, NULL while the registry holds none.
DoneId == StatusId(DONE_TASK_STATUS, "done")

\* The ids of the tasks a finished get_person_tasks call has returned.
ReturnedTaskIds(p) == {ToColumn(frames[p].ret[k].id) : k \in DOMAIN frames[p].ret}

C16_WitnessProject ==
    \E p \in Procs :
        /\ Returned(p, "get_person_tasks")
        /\ frames[p].args.projects = {}
        /\ \E i \in TaskRowIds :
               /\ frames[p].args.person_id \in tasks[i].assignees
               /\ tasks[i].task_status_id # DoneId
        /\ frames[p].ret = <<>>

\* The comments of a task, and the newest of them.
CommentsOn(tid) == {i \in DOMAIN comments : comments[i].object_id = tid}

NewestOn(tid) ==
    {i \in CommentsOn(tid) :
        \A j \in CommentsOn(tid) : comments[j].created_at <= comments[i].created_at}

\* C17: for every task get_person_tasks returns, last_comment is built from
\* the most recently created comment of that task (text, date and person
\* of a comment no other comment of the task is newer than), and is the
\* empty object when the task has no comment.
C17_LastCommentIsNewest ==
    \A p \in Procs :
        Returned(p, "get_person_tasks") =>
            \A k \in DOMAIN frames[p].ret :
                LET task == frames[p].ret[k]
                    tid == ToColumn(task.id)
                IN  IF CommentsOn(tid) = {}
                    THEN task.last_comment = <<>>
                    ELSE \E i \in NewestOn(tid) :
                             task.last_comment =
                                 [text |-> comments[i].text,
                                  date |-> [t |-> "isodate", v |-> comments[i].created_at],
                                  person_id |-> PyStr(comments[i].person_id)]

\* C17 witness: get_person_tasks has returned both tasks; the first has two
\* comments of different texts created at times 1 and 2 and carries the
\* text of the second, the other has no comment and carries {}.
C17_Witness ==
    \E p \in Procs :
        /\ Returned(p, "get_person_tasks")
        /\ ReturnedTaskIds(p) = {1, 2}
        /\ \E i, j \in CommentsOn(1) :
               /\ comments[i].created_at < comments[j].created_at
               /\ comments[i].text # comments[j].text
               /\ frames[p].ret[1].last_comment.text = comments[j].text
        /\ CommentsOn(2) = {}
        /\ frames[p].ret[2].last_comment = <<>>

\* The operations that take a task id.
TaskIdOps ==
    {"start_task", "task_to_review", "assign_task", "clear_assignation",
     "update_task", "remove_task"}

\* Caller p's call was given a malformed id or the id of no task.
NoSuchTask(p) ==
    LET tid == frames[p].args.task_id
    IN  \/ tid = MalformedId
        \/ tid \notin DOMAIN frames[p].pre
        \/ <<"Task", tid>> \in deleted /\ ~frames[p].wrote

\* C19: every operation that takes a task id raises TaskNotFoundException
\* when the id is malformed and when no task has that id.
C19_NotFoundForBadIds ==
    \A p \in Procs :
        (frames[p].op \in TaskIdOps /\ frames[p].pc = "done" /\ NoSuchTask(p)) =>
            frames[p].exc = "TaskNotFoundException"

\* The tasks that were deleted.
DeletedTasks == {i \in DOMAIN tasks : <<"Task", i>> \in deleted}

C20_WitnessRead ==
    \E p \in Procs :
        /\ Returned(p, "get_comments")
        /\ frames[p].args.task_id \in DeletedTasks
        /\ \E i \in DOMAIN comments : comments[i].object_id = frames[p].args.task_id
        /\ frames[p].ret = <<>>

\* A request to a write or read handler that has been answered.
Answered(p, names) == frames[p].pc = "done" /\ frames[p].op \in names

\* C21: every step that removes a record or writes to the hierarchy is
\* taken by a request to a write handler whose manager permission check has
\* passed in that request.
C21_MutationOnlyAfterManagerCheck ==
    [][(hierarchy' # hierarchy \/ deleted' # deleted) =>
           \E p \in Procs :
               /\ frames[p].op \in WriteNames
               /\ frames[p].pc = "write_mutate"
               /\ frames[p].checked
               /\ frames[p].args.manager
               /\ frames'[p].pc = "done"
               /\ frames'[p].wrote]_vars

\* C21 witness: every write handler has performed its mutation: both
\* records are removed and the six other calls have written.
C21_Witness ==
    /\ deleted = {<<"Entity", 5>>, <<"Entity", 7>>}
    /\ {w[1] : w \in hierarchy} =
           {ep.mutation : ep \in WriteEndpoints} \ {"remove_shot", "remove_scene"}
    /\ \E p \in Procs : Answered(p, WriteNames) /\ frames[p].wrote

\* Whether the record a delete request names existed, with the type the
\* handler removes, when the request began.
Existed(f) ==
    /\ f.args.id \in EntityIds
    /\ <<"Entity", f.args.id>> \notin f.pre_deleted
    /\ EntityTypes[Entities[f.args.id].entity_type_id].name = f.args.ep.kind

\* C22: a delete request of a shot or a scene is answered 403 when the
\* manager permission check denies, else 404 when the record is not found,
\* else 204 with the representation of the record it deleted; when the
\* answer is 404 or 403 nothing is deleted.
C22_DeleteAnswers ==
    \A p \in Procs :
        Answered(p, DeleteNames) =>
            LET f == frames[p]
                tomb == <<"Entity", f.args.id>>
            IN  /\ f.ret.code = IF ~f.args.manager THEN 403
                                ELSE IF ~Existed(f) THEN 404
                                ELSE 204
                /\ f.ret.code = 204 =>
                       /\ f.ret.body = SerializeEntity(Entities[f.args.id])
                       /\ deleted = f.pre_deleted \cup {tomb}
                       /\ tomb \notin f.pre_deleted
                /\ f.ret.code # 204 =>
                       /\ f.ret.body = Nil
                       /\ deleted = f.pre_deleted

\* C22 witness: the scene endpoint has answered 404 for a scene that an
\* earlier request deleted, while the shot is still there.
C22_Witness ==
    \E p \in Procs :
        /\ Answered(p, {"SceneResource.delete"})
        /\ frames[p].ret.code = 404
        /\ frames[p].args.manager
        /\ <<"Entity", frames[p].args.id>> \in deleted
        /\ <<"Entity", 5>> \notin deleted

\* C22, the denial: the scene endpoint has answered 403 to a user who is no
\* manager, for a scene that exists and is not deleted.
C22_WitnessDenied ==
    \E p \in Procs :
        /\ Answered(p, {"SceneResource.delete"})
        /\ frames[p].ret.code = 403
        /\ Existed(frames[p])
        /\ deleted = {}

\* C22, the success: the shot endpoint has answered 204 with the shot.
C22_WitnessDeleted ==
    \E p \in Procs :
        /\ Answered(p, {"ShotResource.delete"})
        /\ frames[p].ret.code = 204
        /\ frames[p].ret.body.name = "P01"

\* C23: a read request of a user who is no manager is answered with data
\* only when the handler has run its check and the permission layer allowed
\* the user; when the layer denies, the answer carries no data.
C23_ReadOnlyAfterAllowed ==
    \A p \in Procs :
        (Answered(p, ReadNames) /\ ~frames[p].args.manager) =>
            /\ frames[p].ret.code = 200 => (frames[p].checked /\ frames[p].args.allow)
            /\ ~frames[p].args.allow => frames[p].ret.body = Nil

\* C23 witness: the tasks of a shot have been returned to a user who is no
\* manager and whom the check allowed.
C23_Witness ==
    \E p \in Procs :
        /\ Answered(p, {"ShotTasksResource.get"})
        /\ ~frames[p].args.manager
        /\ frames[p].checked
        /\ frames[p].ret.code = 200

\* C23, the denial: the asset instances of a shot have been refused to a
\* user who is no manager.
C23_WitnessDenied ==
    \E p \in Procs :
        /\ Answered(p, {"ShotAssetInstancesResource.get"})
        /\ ~frames[p].args.manager
        /\ frames[p].ret.code = 403

\* The tasks of the Task table that get_person_tasks is to return for a
\* person and the ids of the listed projects.
AssignedNotDone(pid, project_ids) ==
    {i \in TaskRowIds :
        /\ pid \in tasks[i].assignees
        /\ tasks[i].project_id \in project_ids
        /\ tasks[i].task_status_id # DoneId}

\* The names of a shot's sequence and episode, None for a missing level:
\* SH01 has no sequence, P01 is of S01 of E01, P02 is of S02 of no episode.
LevelsOf(entity_name) ==
    CASE entity_name = "SH01" -> <<PyNone, PyNone>>
      [] entity_name = "P01" -> <<[t |-> "str", s |-> "S01"], [t |-> "str", s |-> "E01"]>>
      [] entity_name = "P02" -> <<[t |-> "str", s |-> "S02"], PyNone>>

\* C24: get_sequence_from_shot raises SequenceNotFoundException for a shot
\* that has no parent sequence and returns the sequence otherwise;
\* get_person_tasks returns every task that is assigned to the person, of a
\* listed project and not done, whatever levels its shot has above it, with
\* sequence_name and episode_name None for a shot of no sequence, and the
\* sequence's name and None for a shot whose sequence has no episode.
C24_MissingLevelsAreNull ==
    \A p \in Procs :
        /\ (frames[p].pc = "done" /\ frames[p].op = "get_sequence_from_shot") =>
               IF frames[p].args.shot.parent_id = PyNone
               THEN frames[p].exc = "SequenceNotFoundException"
               ELSE /\ frames[p].exc = ""
                    /\ frames[p].ret.id = frames[p].args.shot.parent_id
                    /\ [t |-> "str", s |-> frames[p].ret.name] =
                           LevelsOf(frames[p].args.shot.name)[1]
        /\ Returned(p, "get_person_tasks") =>
               LET ret == frames[p].ret
                   project_ids == {ToColumn(project.id) :
                                      project \in frames[p].args.projects}
               IN  /\ ReturnedTaskIds(p) =
                          AssignedNotDone(frames[p].args.person_id, project_ids)
                   /\ \A k \in DOMAIN ret :
                          /\ ret[k].entity_name =
                                 Entities[tasks[ToColumn(ret[k].id)].entity_id].name
                          /\ <<ret[k].sequence_name, ret[k].episode_name>> =
                                 LevelsOf(ret[k].entity_name)

\* C24 witness: get_person_tasks has returned the tasks of the three shots:
\* one of no sequence, one whose sequence has no episode, one with both.
C24_Witness ==
    \E p \in Procs :
        /\ Returned(p, "get_person_tasks")
        /\ {frames[p].ret[k].entity_name : k \in DOMAIN frames[p].ret} =
               {"SH01", "P01", "P02"}
        /\ \E k \in DOMAIN frames[p].ret :
               /\ frames[p].ret[k].sequence_name = PyNone
               /\ frames[p].ret[k].episode_name = PyNone

\* C24, the explicit resolution: get_sequence_from_shot has raised for the
\* shot of no sequence.
C24_WitnessRaised ==
    \E p \in Procs :
        /\ frames[p].pc = "done"
        /\ frames[p].op = "get_sequence_from_shot"
        /\ frames[p].args.shot.name = "SH01"
        /\ frames[p].exc = "SequenceNotFoundException"

\* What a finished get_or_create_status call of caller p did, against the
\* registry S it started on: the row of that name if S has one; else, with
\* a short name given, the row of that short name if S has one; else the
\* new row, appended to S.  With refusal, the creation of a row whose short
\* name is the lowercased name may instead fail on the uniqueness of
\* short_name and leave S as it was.
StatusCallOutcome(p, refusal) ==
    LET f == frames[p]
        S == f.pre_statuses
        byName == {i \in DOMAIN S : S[i].name = f.args.name}
        byShort == {i \in DOMAIN S :
                       f.args.short_name # "" /\ S[i].short_name = f.args.short_name}
        created == [id |-> Len(S) + 1, name |-> f.args.name,
                    short_name |-> IF f.args.short_name # ""
                                   THEN f.args.short_name
                                   ELSE Lower(f.args.name),
                    color |-> "#f5f5f5", is_reviewable |-> FALSE]
        found == IF byName # {} THEN byName ELSE byShort
    IN  IF found # {}
        THEN /\ f.exc = ""
             /\ statuses = S
             /\ \E i \in found : f.ret = SerializeStatus(S[i])
        ELSE \/ /\ f.exc = ""
                /\ statuses = Append(S, created)
                /\ f.ret = SerializeStatus(created)
             \/ /\ refusal
                /\ f.args.short_name = ""
                /\ f.exc = "IntegrityError"
                /\ statuses = S
                /\ \E i \in DOMAIN S : S[i].short_name = created.short_name

C25_WitnessFallback ==
    \E p \in Procs :
        /\ Returned(p, "get_or_create_status")
        /\ frames[p].ret.name # frames[p].args.name
        /\ frames[p].ret.short_name = frames[p].args.short_name
        /\ statuses = frames[p].pre_statuses

\* C25, the refusal: a call with no short name has raised because the
\* lowercased name is the short name of a status of another name.
C25_WitnessRefused ==
    \E p \in Procs :
        /\ frames[p].pc = "done"
        /\ frames[p].op = "get_or_create_status"
        /\ frames[p].args.short_name = ""
        /\ frames[p].exc = "IntegrityError"

LifecycleNotFound == {"TaskNotFoundException", "PersonNotFoundException"}

\* C27: a start_task, task_to_review, clear_assignation or assign_task call
\* that ends with a not-found exception has emitted no event and has left
\* the Task table, hence every status, real_start_date and assignee set, as
\* it was when the call began; a call on an id of no task, and an
\* assign_task for an id of no person, end so.
C27_NotFoundChangesNothing ==
    \A p \in Procs :
        Ended(p) =>
            /\ NoSuchTask(p) => frames[p].exc = "TaskNotFoundException"
            /\ (frames[p].op = "assign_task" /\ ~NoSuchTask(p)
                    /\ frames[p].args.person_id \notin PersonIds) =>
                   frames[p].exc = "PersonNotFoundException"
            /\ frames[p].exc \in LifecycleNotFound =>
                   /\ frames[p].emitted = <<>>
                   /\ tasks = frames[p].pre
                   /\ ~frames[p].wrote
                   /\ frames[p].ret = Nil

\* C27 witness: assign_task for a person that does not exist has failed on
\* a task that is started and assigned.
C27_Witness ==
    \E p \in Procs :
        /\ Ended(p)
        /\ frames[p].op = "assign_task"
        /\ frames[p].exc = "PersonNotFoundException"
        /\ tasks[frames[p].args.task_id].assignees # {}
        /\ tasks[frames[p].args.task_id].real_start_date # NULL

\* C27, the unknown task: start_task has failed on an id of no task while
\* the table holds a task.
C27_WitnessTask ==
    \E p \in Procs :
        /\ Ended(p)
        /\ frames[p].op = "start_task"
        /\ frames[p].exc = "TaskNotFoundException"
        /\ TaskRowIds # {}

\* C28: create_or_update_time_spent with a malformed date raises
\* WrongDateFormatException, which is no subclass of NotFound, returns
\* nothing and leaves the TimeSpent table as it was.
C28_MalformedDateIsRejected ==
    \A p \in Procs :
        (/\ frames[p].pc = "done"
         /\ frames[p].op = "create_or_update_time_spent"
         /\ frames[p].args.date \notin Dates) =>
            /\ frames[p].exc = "WrongDateFormatException"
            /\ frames[p].exc \notin NotFoundExceptions
            /\ HttpCode(frames[p].exc) # 404
            /\ frames[p].ret = Nil
            /\ time_spents = frames[p].pre_times

\* C28 witness: a call with a malformed date has raised, in either mode,
\* for a task and a person that have an entry.
C28_Witness ==
    \E p \in Procs :
        /\ frames[p].pc = "done"
        /\ frames[p].op = "create_or_update_time_spent"
        /\ frames[p].args.date \notin Dates
        /\ frames[p].args.add
        /\ frames[p].exc # ""
        /\ \E i \in TimeSpentRowIds :
               /\ time_spents[i].task_id = frames[p].args.task_id
               /\ time_spents[i].person_id = frames[p].args.person_id

\* C29: the duration of every TimeSpent row is non-negative.
C29_DurationsNonNegative ==
    \A i \in TimeSpentRowIds : time_spents[i].duration >= 0

\* The ids of the tasks of a Task table that get_person_tasks returns for
\* a person when every project is listed: the tasks assigned to the person
\* that have a status other than done.
ViewOf(table, pid) ==
    {i \in DOMAIN table :
        /\ <<"Task", i>> \notin deleted
        /\ pid \in table[i].assignees
        /\ table[i].project_id \in ProjectIds
        /\ table[i].task_status_id \in 1 .. Len(statuses)
        /\ table[i].task_status_id # DoneId}

\* What get_person_tasks, clear_assignation and assign_task do to the
\* views: get_person_tasks with every project listed returns the view;
\* after clear_assignation(T), T is in no view; after assign_task(T, P) on
\* a task that has a status other than done, T is in the view of P.
AssignmentDrivesView(p) ==
    LET tid == frames[p].args.task_id
    IN  /\ (Returned(p, "get_person_tasks") /\ frames[p].args.projects # {}) =>
               ReturnedTaskIds(p) = ViewOf(tasks, frames[p].args.person_id)
        /\ Returned(p, "clear_assignation") =>
               \A pid \in PersonIds : tid \notin ViewOf(tasks, pid)
        /\ (/\ Returned(p, "assign_task")
            /\ New(p).task_status_id \in 1 .. Len(statuses)
            /\ New(p).task_status_id # DoneId) =>
               tid \in ViewOf(tasks, frames[p].args.person_id)

\* start_task or task_to_review has returned for caller p.
Transitioned(p) == Returned(p, "start_task") \/ Returned(p, "task_to_review")

C30_WitnessReopened ==
    \E p \in Procs :
        /\ Returned(p, "start_task")
        /\ Old(p).task_status_id = DoneId
        /\ DoneId # NULL
        /\ Old(p).assignees # {}
        /\ \E pid \in PersonIds : frames[p].args.task_id \in ViewOf(tasks, pid)

\* C30, the assignment: clear_assignation has returned for a task that two
\* persons had in their views.
C30_WitnessCleared ==
    \E p \in Procs :
        /\ Returned(p, "clear_assignation")
        /\ \A pid \in PersonIds : frames[p].args.task_id \in ViewOf(frames[p].pre, pid)

\* The id of the row an accessor finds in the registry, NULL when it finds
\* none and would create one.
AccessorId(accessor) ==
    CASE accessor = "get_todo_status" -> TodoId
      [] accessor = "get_wip_status" -> WipId
      [] accessor = "get_to_review_status" -> ReviewId
      [] accessor = "get_done_status" -> DoneId

\* C31: in every registry state an accessor call returns a status, and no
\* other accessor finds the row it returned: the four accessors return
\* pairwise distinct statuses.
C31_AccessorsDistinct ==
    \A p \in Procs :
        (frames[p].pc = "done" /\ frames[p].op \in Accessors) =>
            /\ frames[p].exc = ""
            /\ \A other \in Accessors \ {frames[p].op} :
                   AccessorId(other) # ToColumn(frames[p].ret.id)

\* C31, the shared row: get_wip_status has returned the row that
\* get_done_status finds by its name.
C31_SharedRow ==
    \E p \in Procs :
        /\ Returned(p, "get_wip_status")
        /\ ToColumn(frames[p].ret.id) = DoneId
        /\ frames[p].ret.name = DONE_TASK_STATUS

\* C31, the failure: get_todo_status has raised on a registry where a
\* status of another name has the short name "todo".
C31_TodoRefused ==
    \E p \in Procs :
        /\ frames[p].pc = "done"
        /\ frames[p].op = "get_todo_status"
        /\ frames[p].exc = "IntegrityError"

\* The sum of the durations of the entries of a get_time_spents result
\* under the given keys.
RECURSIVE SumOfEntries(_, _)
SumOfEntries(ret, keys) ==
    IF keys = {} THEN 0
    ELSE LET k == CHOOSE x \in keys : TRUE
         IN  ret[k].duration + SumOfEntries(ret, keys \ {k})

\* C32: in the map get_time_spents returns, the total is the sum of the
\* durations of the per-person entries of that map.
C32_TotalIsSumOfEntries ==
    \A p \in Procs :
        Returned(p, "get_time_spents") =>
            frames[p].ret["total"] =
                SumOfEntries(frames[p].ret, DOMAIN frames[p].ret \ {"total"})

\* C32, the lost entry: get_time_spents has returned a total of 3 and one
\* entry for a task on which one person recorded 1 and 2 on two dates.
C32_EntryOverwritten ==
    \E p \in Procs :
        /\ Returned(p, "get_time_spents")
        /\ Cardinality(RowsOfTask(frames[p].args.task_id)) = 2
        /\ DOMAIN frames[p].ret = {"total", PersonKey(1)}
        /\ frames[p].ret["total"] = 3
        /\ frames[p].ret[PersonKey(1)].duration < 3

====
